---- MODULE Spec2Model ----
(***************************************************************************)
(* Medical-provider data entry automation: the normalized SQLite storage   *)
(* layer (src/src/db_client.py) and the value objects it stores            *)
(* (src/src/data_models.py).                                               *)
(*                                                                         *)
(* The database is the record db, one field per table.  Tables with an     *)
(* INTEGER/rowid key are sequences of rows in rowid order; tables whose    *)
(* PRIMARY KEY is the whole row are sets of rows.  Every public operation  *)
(* of DatabaseClient is one action: it runs its statements on a working    *)
(* copy (the open transaction) and ends with commit or rollback.           *)
(***************************************************************************)
EXTENDS Integers, Sequences, FiniteSets, TLC

VARIABLES
    db,      \* the committed content of the SQLite database
    uuids,   \* how many times uuid.uuid4() has been called
    op,      \* the last public call: its name and arguments
    ret,     \* its outcome: [raised, value]
    app,     \* the DataEntryAutomation object: its fields and its collaborators
    second   \* the second SQLite's clock is in, counted from the first call

vars == <<db, uuids, op, ret, app, second>>

\* Number of uuid4() draws explored.
MaxUuid == 1

\* Python's None, for Optional[str] fields and ids.
None == "None"

(***************************************************************************)
(* Value objects (data_models.py)                                          *)
(***************************************************************************)

ServiceCategory ==
    { "primary_care", "specialty_care", "emergency", "surgery", "diagnostic",
      "mental_health", "rehabilitation", "pediatrics", "geriatrics",
      "obstetrics", "gynecology", "other" }

\* Optional[List[str]]: None is distinct from the empty list.
NoneList == [is_none |-> TRUE, items |-> <<>>]

ListOf(s) == [is_none |-> FALSE, items |-> s]

\* Python truthiness of an Optional[List]: None and [] are both falsy.
Truthy(l) == ~l.is_none /\ l.items # <<>>

\* phonenumbers.parse(v, "US") + is_valid_number + format_number(E164) on the
\* phone strings used here.  "Invalid" stands for the raised ValueError.
validate_phone(v) ==
    CASE v = "212-555-0147"      -> "+12125550147"
      [] v = "(212) 555-0147"    -> "+12125550147"
      [] v = "+12125550147"      -> "+12125550147"
      [] v = "+1 973 555 0123"   -> "+19735550123"
      [] v = "+19735550123"      -> "+19735550123"
      [] v = "973.555.0199"      -> "+19735550199"
      [] v = "+19735550199"      -> "+19735550199"
      [] v = "+44 20 8366 1177"  -> "+442083661177"
      [] v = "+442083661177"     -> "+442083661177"
      [] OTHER                   -> "Invalid"

\* ContactInfo(...): phone and fax are replaced by their E.164 form.
ContactInfo(phone_number, fax, email, website) ==
    [ phone_number |-> validate_phone(phone_number),
      fax          |-> IF fax = None THEN None ELSE validate_phone(fax),
      email        |-> email,
      website      |-> website ]

Address(street1, street2, city, state, zip_code, country) ==
    [ street1 |-> street1, street2 |-> street2, city |-> city,
      state |-> state, zip_code |-> zip_code, country |-> country ]

Accreditation(organization, license_number, issue_date, expiration_date) ==
    [ organization |-> organization, license_number |-> license_number,
      issue_date |-> issue_date, expiration_date |-> expiration_date ]

MedicalProvider(provider_id, provider_name, provider_type, address, contact_info, services, accreditations, specialties, languages, insurance_accepted) ==
    [ provider_id |-> provider_id, provider_name |-> provider_name,
      provider_type |-> provider_type, address |-> address,
      contact_info |-> contact_info, services |-> services,
      accreditations |-> accreditations, specialties |-> specialties,
      languages |-> languages, insurance_accepted |-> insurance_accepted,
      created_at |-> None, updated_at |-> None ]

\* The provider with the two timestamps filled in (created_at=, updated_at=).
Stamped(provider, created_at, updated_at) ==
    [provider EXCEPT !.created_at = created_at, !.updated_at = updated_at]

\* What get_provider returns for an absent core row (Python None).
NullProvider == [is_null |-> TRUE]

(***************************************************************************)
(* The provider values the operations are called with                      *)
(***************************************************************************)

Addr1 == Address("1 Main St", None, "Albany", "NY", "12207", "USA")

Addr2 == Address("9 Oak Ave", "Suite 4", "Newark", "NJ", "07102-1234", "US")

Contact1 == ContactInfo("212-555-0147", None, None, None)

Contact2 == ContactInfo("+1 973 555 0123", "973.555.0199", "info@example.org",
                        "https://example.org")

Acc1 == Accreditation("JCAHO", "L-100", "2020-01-01", "2031-01-01")

Acc2 == Accreditation("AAAHC", "L-200", "2021-06-30", "2032-06-30")

Names == {"City Clinic", "General Hospital"}

\* provider_id as given by the caller: absent, or a caller-chosen id.
SuppliedIds == {"k1"}

\* The bodies of the providers: a clinic with one service and empty or absent
\* collections, a hospital with every collection filled (its services not in
\* index order and disjoint from the clinic's), and a clinic that lists one
\* service twice.
Bodies ==
    { [ provider_type |-> "clinic", address |-> Addr1, contact_info |-> Contact1,
        services |-> <<"primary_care">>, accreditations |-> <<>>,
        specialties |-> ListOf(<<>>), languages |-> NoneList,
        insurance_accepted |-> ListOf(<<>>) ],
      [ provider_type |-> "hospital", address |-> Addr2, contact_info |-> Contact2,
        services |-> <<"surgery", "emergency">>,
        accreditations |-> <<Acc2, Acc1>>,
        specialties |-> ListOf(<<"Cardiology">>),
        languages |-> ListOf(<<"English">>),
        insurance_accepted |-> ListOf(<<"Aetna">>) ],
      [ provider_type |-> "Clinic", address |-> Addr2, contact_info |-> Contact1,
        services |-> <<"emergency", "emergency">>, accreditations |-> <<Acc1>>,
        specialties |-> NoneList, languages |-> NoneList,
        insurance_accepted |-> NoneList ] }

Providers ==
    { MedicalProvider(i, n, b.provider_type, b.address, b.contact_info,
                      b.services, b.accreditations, b.specialties, b.languages,
                      b.insurance_accepted) :
        i \in {None} \cup SuppliedIds, n \in Names, b \in Bodies }

\* str(uuid.uuid4()): the n-th draw is an id no earlier draw returned.
uuid4(n) == "u" \o ToString(n)

\* Every id a provider row can carry in this model.
Ids == {uuid4(n) : n \in 1..MaxUuid} \cup SuppliedIds

(***************************************************************************)
(* SQLite: tables, statements, transactions (db_client.py create_tables)   *)
(***************************************************************************)

\* The database create_tables leaves behind: every table exists and is empty.
EmptyDb ==
    [ providers |-> <<>>, addresses |-> <<>>, contact_info |-> <<>>,
      accreditations |-> <<>>,
      services |-> {}, provider_services |-> {},
      specialties |-> {}, provider_specialties |-> {},
      languages |-> {}, provider_languages |-> {},
      insurance_plans |-> {}, provider_insurance |-> {},
      validation_failures |-> <<>> ]

\* The tables keyed by provider_id with an AUTOINCREMENT row id.
RowTables == {"addresses", "contact_info", "accreditations"}

\* Each association table and the lookup table its second column references.
LookupOf ==
    [ provider_services |-> "services", provider_specialties |-> "specialties",
      provider_languages |-> "languages", provider_insurance |-> "insurance_plans" ]

LinkTables == DOMAIN LookupOf

LookupTables == {LookupOf[t] : t \in LinkTables}

\* SQLite's BINARY collation on the text values stored in the lookup and
\* association tables: the order in which a PRIMARY KEY index returns them.
BinaryOrder ==
    << "Aetna", "Cardiology", "English",
       "diagnostic", "emergency", "geriatrics", "gynecology", "mental_health",
       "obstetrics", "other", "pediatrics", "primary_care", "rehabilitation",
       "specialty_care", "surgery" >>

ProviderIds(d) == {d.providers[i].id : i \in DOMAIN d.providers}

\* SELECT * FROM <table> WHERE provider_id = ?  on a rowid table: rowid order.
RowsOf(d, table, provider_id) ==
    SelectSeq(d[table], LAMBDA r : r.provider_id = provider_id)

\* SELECT <name> FROM <association> WHERE provider_id = ?  : answered from the
\* PRIMARY KEY (provider_id, name) index, so the names come back in index order.
NamesOf(d, table, provider_id) ==
    SelectSeq(BinaryOrder, LAMBDA n : [provider_id |-> provider_id, name |-> n] \in d[table])

\* A name check that never finds a row.
SelectByName_none(d, provider_name) == <<>>

\* SELECT id FROM providers WHERE provider_name = ?  : a table scan, rowid order.
SelectByName(d, provider_name) ==
    SelectSeq(d.providers, LAMBDA r : r.provider_name = provider_name)

\* The open transaction: the working copy and whether a statement has raised.
\* Once a statement has raised, control is in the except block: no later
\* statement of the try block runs.
Begin(d) == [db |-> d, err |-> FALSE]

Raised(tx) == [tx EXCEPT !.err = TRUE]

\* self.conn.commit(): the working copy becomes the database.
commit(d, tx) == tx.db

\* A rollback that is not performed: the statements executed so far stay.
rollback_missing(d, tx) == tx.db

\* A rollback that finds the audit rows uncommitted: they go as well.
rollback_uncommitted(d, tx) == [d EXCEPT !.validation_failures = <<>>]

\* self.conn.rollback(): the database is what it was at the last commit.
rollback(d, tx) == d

\* An execute() that fails for a reason outside the data (sqlite3.OperationalError:
\* disk I/O error, database is locked) in front of step k of an operation.
\* The steps explored: an early, a middle and the last one of the eight.
FaultSteps == {2, 5, 8}

Fault(tx, fault, k) == IF ~tx.err /\ fault = k THEN Raised(tx) ELSE tx

\* CURRENT_TIMESTAMP in the n-th second: the text 'YYYY-MM-DD HH:MM:SS'.
CURRENT_TIMESTAMP(n) == "2026-11-05 09:00:0" \o ToString(n)

\* INSERT OR REPLACE INTO providers: a row stored under the id is overwritten.
InsertProvider_replace(tx, id, provider_name, provider_type, now) ==
    LET row == [id |-> id, provider_name |-> provider_name,
                provider_type |-> provider_type,
                created_at |-> CURRENT_TIMESTAMP(now),
                updated_at |-> CURRENT_TIMESTAMP(now)]
    IN  IF tx.err THEN tx
        ELSE [tx EXCEPT !.db.providers =
                Append(SelectSeq(@, LAMBDA r : r.id # id), row)]

\* INSERT INTO providers (id, provider_name, provider_type): id is the PRIMARY
\* KEY, created_at and updated_at take their DEFAULT CURRENT_TIMESTAMP.
InsertProvider(tx, id, provider_name, provider_type, now) ==
    IF tx.err THEN tx
    ELSE IF id \in ProviderIds(tx.db) THEN Raised(tx)
    ELSE [tx EXCEPT !.db.providers =
            Append(@, [id |-> id, provider_name |-> provider_name,
                       provider_type |-> provider_type,
                       created_at |-> CURRENT_TIMESTAMP(now),
                       updated_at |-> CURRENT_TIMESTAMP(now)])]

\* INSERT INTO addresses / contact_info / accreditations: provider_id is a
\* FOREIGN KEY into providers (PRAGMA foreign_keys = ON).
InsertRow(tx, table, row) ==
    IF tx.err THEN tx
    ELSE IF row.provider_id \notin ProviderIds(tx.db) THEN Raised(tx)
    ELSE [tx EXCEPT !.db[table] = Append(@, row)]

\* INSERT OR IGNORE INTO <lookup> (name) VALUES (?)
InsertOrIgnore(tx, lookup, name) ==
    IF tx.err THEN tx ELSE [tx EXCEPT !.db[lookup] = @ \cup {name}]

\* INSERT INTO <association> (provider_id, name): the pair is the PRIMARY KEY
\* and both columns are FOREIGN KEYs.
InsertLink(tx, table, provider_id, name) ==
    LET row == [provider_id |-> provider_id, name |-> name]
    IN  IF tx.err THEN tx
        ELSE IF row \in tx.db[table] THEN Raised(tx)
        ELSE IF provider_id \notin ProviderIds(tx.db)
                \/ name \notin tx.db[LookupOf[table]] THEN Raised(tx)
        ELSE [tx EXCEPT !.db[table] = @ \cup {row}]

\* A DELETE that removes nothing.
DeleteRows_none(tx, table, provider_id) == tx

\* DELETE FROM <table> WHERE provider_id = ?
DeleteRows(tx, table, provider_id) ==
    IF tx.err THEN tx
    ELSE IF table \in RowTables
         THEN [tx EXCEPT !.db[table] = SelectSeq(@, LAMBDA r : r.provider_id # provider_id)]
         ELSE [tx EXCEPT !.db[table] = {r \in @ : r.provider_id # provider_id}]

AddressRow(provider_id, a) ==
    [ provider_id |-> provider_id, street1 |-> a.street1, street2 |-> a.street2,
      city |-> a.city, state |-> a.state, zip_code |-> a.zip_code,
      country |-> a.country ]

ContactRow(provider_id, c) ==
    [ provider_id |-> provider_id, phone_number |-> c.phone_number,
      fax |-> c.fax, email |-> c.email, website |-> c.website ]

AccreditationRow(provider_id, a) ==
    [ provider_id |-> provider_id, organization |-> a.organization,
      license_number |-> a.license_number, issue_date |-> a.issue_date,
      expiration_date |-> a.expiration_date ]

\* for accred in provider.accreditations: INSERT INTO accreditations ...
RECURSIVE InsertAccreditations(_, _, _)
InsertAccreditations(tx, provider_id, accreditations) ==
    IF accreditations = <<>> THEN tx
    ELSE InsertAccreditations(
             InsertRow(tx, "accreditations",
                       AccreditationRow(provider_id, Head(accreditations))),
             provider_id, Tail(accreditations))

\* for x in <list>: INSERT OR IGNORE INTO <lookup>; INSERT INTO <association>
RECURSIVE InsertLinks(_, _, _, _)
InsertLinks(tx, table, provider_id, names) ==
    IF names = <<>> THEN tx
    ELSE InsertLinks(
             InsertLink(InsertOrIgnore(tx, LookupOf[table], Head(names)),
                        table, provider_id, Head(names)),
             table, provider_id, Tail(names))

\* Outcomes of a call.
Return(v) == [raised |-> FALSE, value |-> v]

Raise(v) == [raised |-> TRUE, value |-> v]

(***************************************************************************)
(* DatabaseClient operations.  Each returns [db, ret]: the database after  *)
(* the call and the call's outcome.                                        *)
(***************************************************************************)

\* The steps of add_provider that execute at least one statement.
AddSteps(provider) ==
    {1, 2, 3}
    \cup (IF provider.accreditations # <<>> THEN {4} ELSE {})
    \cup (IF provider.services # <<>> THEN {5} ELSE {})
    \cup (IF Truthy(provider.specialties) THEN {6} ELSE {})
    \cup (IF Truthy(provider.languages) THEN {7} ELSE {})
    \cup (IF Truthy(provider.insurance_accepted) THEN {8} ELSE {})

\* The failures explored for a call that writes the provider: none, or one
\* in front of a step of FaultSteps, the latter for the providers whose
\* add_provider executes statements in all eight steps.
Faults(provider) ==
    {0} \cup (IF AddSteps(provider) = 1..8 THEN FaultSteps ELSE {})

\* add_provider(provider); uuid is what uuid.uuid4() returns if it is called,
\* now the second the call is made in.
add_provider(d, provider, uuid, fault, now) ==
    LET existing == SelectByName(d, provider.provider_name)
        provider_id == IF provider.provider_id # None THEN provider.provider_id
                       ELSE uuid
        t1 == InsertProvider(Fault(Begin(d), fault, 1), provider_id,
                             provider.provider_name, provider.provider_type, now)
        t2 == InsertRow(Fault(t1, fault, 2), "addresses",
                        AddressRow(provider_id, provider.address))
        t3 == InsertRow(Fault(t2, fault, 3), "contact_info",
                        ContactRow(provider_id, provider.contact_info))
        t4 == InsertAccreditations(Fault(t3, fault, 4), provider_id,
                                   provider.accreditations)
        t5 == InsertLinks(Fault(t4, fault, 5), "provider_services", provider_id,
                          provider.services)
        t6 == IF Truthy(provider.specialties)
              THEN InsertLinks(Fault(t5, fault, 6), "provider_specialties",
                               provider_id, provider.specialties.items)
              ELSE t5
        t7 == IF Truthy(provider.languages)
              THEN InsertLinks(Fault(t6, fault, 7), "provider_languages",
                               provider_id, provider.languages.items)
              ELSE t6
        t8 == IF Truthy(provider.insurance_accepted)
              THEN InsertLinks(Fault(t7, fault, 8), "provider_insurance",
                               provider_id, provider.insurance_accepted.items)
              ELSE t7
    IN  IF existing # <<>>
        THEN [db |-> d, ret |-> Return(existing[1].id)]
        ELSE IF t8.err
        THEN [db |-> rollback(d, t8), ret |-> Raise(None)]
        ELSE [db |-> commit(d, t8), ret |-> Return(provider_id)]

\* get_provider(provider_id): the provider rebuilt from its rows.  A missing
\* address or contact row makes the row subscript raise TypeError; the value
\* objects validate the stored fields again.
get_provider(d, provider_id) ==
    LET provider_rows == SelectSeq(d.providers, LAMBDA r : r.id = provider_id)
        address_rows == RowsOf(d, "addresses", provider_id)
        contact_rows == RowsOf(d, "contact_info", provider_id)
        accreditation_rows == RowsOf(d, "accreditations", provider_id)
        service_rows == NamesOf(d, "provider_services", provider_id)
        specialty_rows == NamesOf(d, "provider_specialties", provider_id)
        language_rows == NamesOf(d, "provider_languages", provider_id)
        insurance_rows == NamesOf(d, "provider_insurance", provider_id)
        provider_row == provider_rows[1]
        address_row == address_rows[1]
        contact_row == contact_rows[1]
        contact_info == ContactInfo(contact_row.phone_number, contact_row.fax,
                                    contact_row.email, contact_row.website)
    IN  IF provider_rows = <<>> THEN Return(NullProvider)
        ELSE IF address_rows = <<>> \/ contact_rows = <<>> THEN Raise(NullProvider)
        ELSE IF contact_info.phone_number = "Invalid" \/ contact_info.fax = "Invalid"
        THEN Raise(NullProvider)
        ELSE IF \E i \in DOMAIN service_rows : service_rows[i] \notin ServiceCategory
        THEN Raise(NullProvider)
        ELSE Return(Stamped(MedicalProvider(
                 provider_row.id, provider_row.provider_name,
                 provider_row.provider_type,
                 Address(address_row.street1, address_row.street2, address_row.city,
                         address_row.state, address_row.zip_code, address_row.country),
                 contact_info,
                 service_rows,
                 [i \in DOMAIN accreditation_rows |->
                     Accreditation(accreditation_rows[i].organization,
                                   accreditation_rows[i].license_number,
                                   accreditation_rows[i].issue_date,
                                   accreditation_rows[i].expiration_date)],
                 IF specialty_rows # <<>> THEN ListOf(specialty_rows) ELSE NoneList,
                 IF language_rows # <<>> THEN ListOf(language_rows) ELSE NoneList,
                 IF insurance_rows # <<>> THEN ListOf(insurance_rows) ELSE NoneList),
                 provider_row.created_at, provider_row.updated_at))

\* An existence check that always finds a row.
Exists_always(d, provider_id) == TRUE

\* SELECT id FROM providers WHERE id = ?  followed by fetchone(): is there a row?
Exists(d, provider_id) == provider_id \in ProviderIds(d)

\* An UPDATE that writes created_at as well.
UpdateProviderRow_created(tx, id, provider_name, provider_type, now) ==
    IF tx.err THEN tx
    ELSE [tx EXCEPT !.db.providers =
            [i \in DOMAIN @ |->
                IF @[i].id = id
                THEN [@[i] EXCEPT !.provider_name = provider_name,
                                  !.provider_type = provider_type,
                                  !.created_at = CURRENT_TIMESTAMP(now),
                                  !.updated_at = CURRENT_TIMESTAMP(now)]
                ELSE @[i]]]

\* UPDATE providers SET provider_name = ?, provider_type = ?,
\* updated_at = CURRENT_TIMESTAMP WHERE id = ?
UpdateProviderRow(tx, id, provider_name, provider_type, now) ==
    IF tx.err THEN tx
    ELSE [tx EXCEPT !.db.providers =
            [i \in DOMAIN @ |->
                IF @[i].id = id
                THEN [@[i] EXCEPT !.provider_name = provider_name,
                                  !.provider_type = provider_type,
                                  !.updated_at = CURRENT_TIMESTAMP(now)]
                ELSE @[i]]]

\* An upsert that always inserts.
Upsert_insert(tx, table, row) == InsertRow(tx, table, row)

\* "Update or insert": UPDATE <table> SET ... WHERE provider_id = ? if a row
\* for the provider exists, INSERT otherwise.
Upsert(tx, table, row) ==
    IF tx.err THEN tx
    ELSE IF RowsOf(tx.db, table, row.provider_id) # <<>>
    THEN [tx EXCEPT !.db[table] =
            [i \in DOMAIN @ |->
                IF @[i].provider_id = row.provider_id THEN row ELSE @[i]]]
    ELSE InsertRow(tx, table, row)

\* update_provider(provider_id, provider), called in the second now.
update_provider(d, provider_id, provider, fault, now) ==
    LET t1 == UpdateProviderRow(Fault(Begin(d), fault, 1), provider_id,
                                provider.provider_name, provider.provider_type,
                                now)
        t2 == Upsert(Fault(t1, fault, 2), "addresses",
                     AddressRow(provider_id, provider.address))
        t3 == Upsert(Fault(t2, fault, 3), "contact_info",
                     ContactRow(provider_id, provider.contact_info))
        t4 == InsertAccreditations(
                  DeleteRows(Fault(t3, fault, 4), "accreditations", provider_id),
                  provider_id, provider.accreditations)
        t5 == InsertLinks(
                  DeleteRows(Fault(t4, fault, 5), "provider_services", provider_id),
                  "provider_services", provider_id, provider.services)
        d6 == DeleteRows(Fault(t5, fault, 6), "provider_specialties", provider_id)
        t6 == IF Truthy(provider.specialties)
              THEN InsertLinks(d6, "provider_specialties", provider_id,
                               provider.specialties.items)
              ELSE d6
        d7 == DeleteRows(Fault(t6, fault, 7), "provider_languages", provider_id)
        t7 == IF Truthy(provider.languages)
              THEN InsertLinks(d7, "provider_languages", provider_id,
                               provider.languages.items)
              ELSE d7
        d8 == DeleteRows(Fault(t7, fault, 8), "provider_insurance", provider_id)
        t8 == IF Truthy(provider.insurance_accepted)
              THEN InsertLinks(d8, "provider_insurance", provider_id,
                               provider.insurance_accepted.items)
              ELSE d8
    IN  IF ~Exists(d, provider_id)
        THEN [db |-> d, ret |-> Return(FALSE)]
        ELSE IF t8.err
        THEN [db |-> rollback(d, t8), ret |-> Raise(FALSE)]
        ELSE [db |-> commit(d, t8), ret |-> Return(TRUE)]

\* Foreign keys not enforced (a connection without PRAGMA foreign_keys = ON):
\* deleting the core row deletes nothing else.
CascadeDelete_off(d, provider_id) == d

\* A cascade that reaches the row tables but not the association tables.
CascadeDelete_rows(d, provider_id) ==
    [t \in DOMAIN d |->
        IF t \in RowTables
        THEN SelectSeq(d[t], LAMBDA r : r.provider_id # provider_id)
        ELSE d[t]]

\* A cascade that also prunes the lookup values no association row uses.
CascadeDelete_prune(d, provider_id) ==
    [t \in DOMAIN d |->
        IF t \in RowTables
        THEN SelectSeq(d[t], LAMBDA r : r.provider_id # provider_id)
        ELSE IF t \in LinkTables
        THEN {r \in d[t] : r.provider_id # provider_id}
        ELSE IF t \notin LookupTables THEN d[t]
        ELSE {n \in d[t] :
                \E l \in LinkTables :
                    /\ LookupOf[l] = t
                    /\ \E r \in d[l] : r.name = n /\ r.provider_id # provider_id}]

\* ON DELETE CASCADE on provider_id of the three row tables and the four
\* association tables: the rows of a deleted provider go with it.  No lookup
\* table has a foreign key, so none loses a row.
CascadeDelete(d, provider_id) ==
    [t \in DOMAIN d |->
        IF t \in RowTables
        THEN SelectSeq(d[t], LAMBDA r : r.provider_id # provider_id)
        ELSE IF t \in LinkTables
        THEN {r \in d[t] : r.provider_id # provider_id}
        ELSE d[t]]

\* DELETE FROM providers WHERE id = ?
DeleteProviderRow(tx, id) ==
    IF tx.err THEN tx
    ELSE [tx EXCEPT !.db =
            CascadeDelete([@ EXCEPT !.providers = SelectSeq(@, LAMBDA r : r.id # id)],
                          id)]

\* delete_provider(provider_id)
delete_provider(d, provider_id, fault) ==
    LET t1 == DeleteProviderRow(Fault(Begin(d), fault, 1), provider_id)
    IN  IF ~Exists(d, provider_id)
        THEN [db |-> d, ret |-> Return(FALSE)]
        ELSE IF t1.err
        THEN [db |-> rollback(d, t1), ret |-> Raise(FALSE)]
        ELSE [db |-> commit(d, t1), ret |-> Return(TRUE)]

\* An except block that ends the loop at the first failing item.
Remaining_abort(raised, providers) == IF raised THEN <<>> ELSE Tail(providers)

\* for provider in providers: try ... except Exception: log.  The items the
\* loop still visits after the first one, whether or not it raised.
Remaining(raised, providers) == Tail(providers)

\* add_providers_batch(providers).  n is the number of uuid4() calls made so
\* far, faults the failure injected into each item's add_provider, now the
\* second the call is made in.  items records the outcome of each
\* add_provider call the loop made.
RECURSIVE add_providers_batch(_, _, _, _, _)
add_providers_batch(d, n, providers, faults, now) ==
    IF providers = <<>>
    THEN [db |-> d, uuids |-> n, provider_ids |-> <<>>, items |-> <<>>]
    ELSE LET provider == Head(providers)
             draws == /\ SelectByName(d, provider.provider_name) = <<>>
                      /\ provider.provider_id = None
             r == add_provider(d, provider, uuid4(n + 1), Head(faults), now)
             todo == Remaining(r.ret.raised, providers)
             rest == add_providers_batch(
                         r.db, IF draws THEN n + 1 ELSE n, todo,
                         SubSeq(faults, Len(faults) - Len(todo) + 1, Len(faults)),
                         now)
         IN  [ db |-> rest.db, uuids |-> rest.uuids,
               provider_ids |-> IF r.ret.raised THEN rest.provider_ids
                                ELSE <<r.ret.value>> \o rest.provider_ids,
               items |-> <<r.ret>> \o rest.items ]

(***************************************************************************)
(* Queries: search_providers and get_all_providers                         *)
(***************************************************************************)

\* The characters of the names, cities and search values used here.
Chars(s) ==
    CASE s = "City Clinic"      -> <<"C", "i", "t", "y", " ", "C", "l", "i", "n", "i", "c">>
      [] s = "General Hospital" -> <<"G", "e", "n", "e", "r", "a", "l", " ", "H", "o", "s", "p", "i", "t", "a", "l">>
      [] s = "Albany"           -> <<"A", "l", "b", "a", "n", "y">>
      [] s = "Newark"           -> <<"N", "e", "w", "a", "r", "k">>
      [] s = "clinic"           -> <<"c", "l", "i", "n", "i", "c">>
      [] s = "C_ty"             -> <<"C", "_", "t", "y">>
      [] s = "new"              -> <<"n", "e", "w">>
      [] OTHER                  -> <<>>

\* SQLite folds the ASCII upper-case letters for LIKE.
LowerChar(c) ==
    CASE c = "A" -> "a" [] c = "C" -> "c" [] c = "G" -> "g" [] c = "H" -> "h"
      [] c = "N" -> "n" [] OTHER -> c

\* text LIKE pattern in SQLite: % matches any run of characters, _ any one
\* character, every other character itself without regard to ASCII case.
RECURSIVE Like(_, _)
Like(pattern, text) ==
    IF pattern = <<>> THEN text = <<>>
    ELSE IF Head(pattern) = "%"
    THEN Like(Tail(pattern), text) \/ (text # <<>> /\ Like(pattern, Tail(text)))
    ELSE IF text = <<>> THEN FALSE
    ELSE /\ Head(pattern) = "_" \/ LowerChar(Head(pattern)) = LowerChar(Head(text))
         /\ Like(Tail(pattern), Tail(text))

\* f"%{value}%"
Wrapped(value) == <<"%">> \o Chars(value) \o <<"%">>

\* The criteria keys search_providers reads.
Recognized == {"provider_name", "provider_type", "state", "city"}

\* FROM providers p: the core rows, no address columns.
CoreRows(d) == [i \in DOMAIN d.providers |-> [p |-> d.providers[i], a |-> None]]

\* FROM providers p JOIN addresses a ON p.id = a.provider_id: one row per
\* pair of a core row and an address row of that provider.
JoinedRows(d) ==
    LET a == SelectSeq(d.addresses, LAMBDA r : r.provider_id \in ProviderIds(d))
    IN  [i \in DOMAIN a |->
            [ p |-> SelectSeq(d.providers, LAMBDA r : r.id = a[i].provider_id)[1],
              a |-> a[i] ]]

\* The WHERE clause: the conditions of the recognized keys present, ANDed.
Where(criteria, row) ==
    /\ "provider_name" \in criteria.present =>
          Like(Wrapped(criteria.provider_name), Chars(row.p.provider_name))
    /\ "provider_type" \in criteria.present =>
          row.p.provider_type = criteria.provider_type
    /\ "state" \in criteria.present => row.a.state = criteria.state
    /\ "city" \in criteria.present =>
          Like(Wrapped(criteria.city), Chars(row.a.city))

\* The query search_providers builds and runs: the ids of the selected rows.
\* SQL leaves the order of the rows open; here it is the order of the scan.
Select(d, criteria) ==
    LET rows == IF "state" \in criteria.present \/ "city" \in criteria.present
                THEN JoinedRows(d) ELSE CoreRows(d)
        hits == SelectSeq(rows, LAMBDA row : Where(criteria, row))
    IN  [i \in DOMAIN hits |-> hits[i].p.id]

\* SELECT id FROM providers
SelectAll(d) == [i \in DOMAIN d.providers |-> d.providers[i].id]

\* [self.get_provider(pid) for pid in provider_ids] without the None results;
\* an exception of get_provider is re-raised.
Rebuild(d, provider_ids) ==
    LET got == [i \in DOMAIN provider_ids |-> get_provider(d, provider_ids[i])]
        found == SelectSeq(got, LAMBDA g : g.value # NullProvider)
    IN  IF \E i \in DOMAIN got : got[i].raised THEN Raise(<<>>)
        ELSE Return([i \in DOMAIN found |-> found[i].value])

\* A search that refuses a criteria key it does not know.
search_providers_strict(d, criteria) ==
    IF criteria.present \subseteq Recognized
    THEN Rebuild(d, Select(d, criteria)) ELSE Raise(<<>>)

\* search_providers(criteria)
search_providers(d, criteria) == Rebuild(d, Select(d, criteria))

\* get_all_providers()
get_all_providers(d) == Rebuild(d, SelectAll(d))

(***************************************************************************)
(* The state machine: one action per public call                           *)
(***************************************************************************)

\* DataEntryAutomation(use_db): the validator's error log, the two lists the
\* object keeps, and what the external API has been sent.
DataEntryAutomation(use_db) ==
    [ use_db |-> use_db, error_log |-> <<>>, validation_failures |-> <<>>,
      processed_providers |-> <<>>, submitted |-> <<>> ]

\* The record of a call.  fault tells whether an execute() of the call was
\* made to fail from outside.
Call(name, provider_id, provider, fault) ==
    [name |-> name, provider_id |-> provider_id, provider |-> provider,
     fault |-> fault # 0]

Init ==
    /\ db = EmptyDb
    /\ uuids = 0
    /\ op = Call("create_tables", None, NullProvider, 0)
    /\ ret = Return(None)
    /\ app = DataEntryAutomation(TRUE)
    /\ second = 0

\* add_provider called with one of the given provider values.
AddProviderOf(providers) ==
    \E provider \in providers :
        LET exists == SelectByName(db, provider.provider_name) # <<>>
            draws == ~exists /\ provider.provider_id = None
        IN  \E fault \in IF exists THEN {0} ELSE Faults(provider) :
                LET r == add_provider(db, provider, uuid4(uuids + 1), fault, second)
                IN  /\ draws => uuids < MaxUuid
                    /\ db' = r.db
                    /\ ret' = r.ret
                    /\ uuids' = IF draws THEN uuids + 1 ELSE uuids
                    /\ op' = Call("add_provider", provider.provider_id, provider, fault)
                    /\ UNCHANGED <<app, second>>

AddProvider == AddProviderOf(Providers)

GetProvider ==
    \E provider_id \in Ids :
        /\ ret' = get_provider(db, provider_id)
        /\ op' = Call("get_provider", provider_id, NullProvider, 0)
        /\ UNCHANGED <<db, uuids, app, second>>

\* update_provider called with an id and one of the given provider values.
UpdateProviderOf(providers) ==
    \E provider_id \in Ids, provider \in providers :
        \E fault \in IF provider_id \in ProviderIds(db) THEN Faults(provider) ELSE {0} :
            LET r == update_provider(db, provider_id, provider, fault, second)
            IN  /\ db' = r.db
                /\ ret' = r.ret
                /\ op' = Call("update_provider", provider_id, provider, fault)
                /\ UNCHANGED <<uuids, app, second>>

UpdateProvider == UpdateProviderOf(Providers)

\* The names the core table holds under an id.
NamesUnder(d, provider_id) ==
    {d.providers[i].provider_name :
        i \in {j \in DOMAIN d.providers : d.providers[j].id = provider_id}}

\* delete_provider called with an id.  The call record notes in found what
\* the core table held under the id when the call was made.
DeleteProvider ==
    \E provider_id \in Ids :
        \E fault \in IF provider_id \in ProviderIds(db) THEN {0, 1} ELSE {0} :
            LET r == delete_provider(db, provider_id, fault)
            IN  /\ db' = r.db
                /\ ret' = r.ret
                /\ op' = [ name |-> "delete_provider", provider_id |-> provider_id,
                           provider |-> NullProvider, fault |-> fault # 0,
                           found |-> NamesUnder(db, provider_id) ]
                /\ UNCHANGED <<uuids, app, second>>

Next ==
    \/ AddProvider
    \/ GetProvider
    \/ UpdateProvider
    \/ DeleteProvider

Spec == Init /\ [][Next]_vars

(***************************************************************************)
(* Batch insertion: add_providers_batch on the same database               *)
(***************************************************************************)

\* Longest batch explored.
MaxBatch == 3

\* The providers a batch is made of: a clinic named City Clinic without an
\* id, and the two other bodies named General Hospital under a caller-chosen
\* id (the second of them repeats a service).
BatchProviders ==
    {p \in Providers :
        /\ p.provider_id = None <=> p.provider_name = "City Clinic"
        /\ p.provider_id = None <=> p.provider_type = "clinic"}

\* The failures explored inside a batch: none, or one in front of the last
\* step of an item that executes all eight.
BatchFaults(provider) == Faults(provider) \cap {0, 8}

\* The batches: every list of up to MaxBatch providers, each with a failure.
BatchItems ==
    {[provider |-> p, fault |-> f] : p \in BatchProviders, f \in {0, 8}}

Batches ==
    UNION {[1..n -> {i \in BatchItems : i.fault \in BatchFaults(i.provider)}] :
             n \in 0..MaxBatch}

AddProvidersBatch ==
    \E batch \in Batches :
        LET providers == [i \in DOMAIN batch |-> batch[i].provider]
            faults == [i \in DOMAIN batch |-> batch[i].fault]
            r == add_providers_batch(db, uuids, providers, faults, second)
        IN  /\ r.uuids <= MaxUuid
            /\ db' = r.db
            /\ uuids' = r.uuids
            /\ ret' = [raised |-> FALSE, value |-> r.provider_ids, items |-> r.items]
            /\ op' = [name |-> "add_providers_batch", providers |-> providers,
                      faults |-> [i \in DOMAIN faults |-> faults[i] # 0]]
            /\ UNCHANGED <<app, second>>

BatchNext == AddProvidersBatch

BatchSpec == Init /\ [][BatchNext]_vars

(***************************************************************************)
(* Searching and listing the providers stored                              *)
(***************************************************************************)

\* The criteria maps searched with.  present holds the keys of the map: each
\* recognized key is absent or carries one of the values below, and zip_code
\* is a key search_providers does not know.
Criteria ==
    { [ present |-> {k \in {"provider_name", "provider_type", "state", "city",
                            "zip_code"} : c[k] # None},
        provider_name |-> c.provider_name, provider_type |-> c.provider_type,
        state |-> c.state, city |-> c.city, zip_code |-> c.zip_code ] :
        c \in [ provider_name : {None, "clinic", "C_ty"},
                provider_type : {None, "clinic", "hospital"},
                state : {None, "NY"}, city : {None, "new"},
                zip_code : {None, "12207"} ] }

SearchProviders ==
    \E criteria \in Criteria :
        /\ ret' = search_providers(db, criteria)
        /\ op' = [name |-> "search_providers", criteria |-> criteria]
        /\ UNCHANGED <<db, uuids, app, second>>

GetAllProviders ==
    /\ ret' = get_all_providers(db)
    /\ op' = [name |-> "get_all_providers"]
    /\ UNCHANGED <<db, uuids, app, second>>

QueryNext ==
    \/ AddProvider
    \/ DeleteProvider
    \/ SearchProviders
    \/ GetAllProviders

QuerySpec == Init /\ [][QueryNext]_vars

(***************************************************************************)
(* Storage-assigned timestamps: adds and updates as the seconds pass       *)
(***************************************************************************)

\* The last second explored.
MaxSecond == 1

\* A second passes between two calls.
Tick ==
    /\ second < MaxSecond
    /\ second' = second + 1
    /\ UNCHANGED <<db, uuids, op, ret, app>>

\* Two of the providers: the clinic named City Clinic without an id, and the
\* hospital named General Hospital under the caller's id.
ClinicAndHospital ==
    {p \in Providers :
        /\ p.provider_id = None <=> p.provider_name = "City Clinic"
        /\ p.provider_id = None <=> p.provider_type = "clinic"
        /\ p.provider_type \in {"clinic", "hospital"}}

TimeNext ==
    \/ AddProviderOf(ClinicAndHospital)
    \/ UpdateProviderOf(ClinicAndHospital)
    \/ Tick

TimeSpec == Init /\ [][TimeNext]_vars

(***************************************************************************)
(* Validation: model construction from a raw record (data_models.py) and   *)
(* the business rules (data_validator.py)                                  *)
(***************************************************************************)

\* A ZIP check that accepts every string.
validate_zip_code_any(v) == v

\* re.match(r'^\d{5}(-\d{4})?$', v) on the ZIP strings used here.
validate_zip_code(v) ==
    IF v \in {"12207", "07102-1234"} THEN v ELSE "Invalid"

\* validators.email(v) on the strings used here.
validate_email(v) ==
    IF v = None \/ v = "info@example.org" THEN v ELSE "Invalid"

\* validators.url(v) on the strings used here.
validate_website(v) ==
    IF v = None \/ v = "https://example.org" THEN v ELSE "Invalid"

\* A date check that also asks for a date of the calendar.
validate_date_calendar(v) ==
    IF v \in {"2020-01-01", "2021-06-30", "2026-11-04", "2026-11-05",
              "2026-11-06", "2031-01-01", "2032-06-30"}
    THEN v ELSE "Invalid"

\* re.match(r'^\d{4}-\d{2}-\d{2}$', v) on the date strings used here.
validate_date(v) ==
    IF v \in {"2020-01-01", "2021-06-30", "2026-02-30", "2026-11-04",
              "2026-11-05", "2026-11-06", "2026-13-01", "2031-01-01",
              "2032-06-30"}
    THEN v ELSE "Invalid"

\* datetime.strptime(v, "%Y-%m-%d"): midnight of the day, the days numbered
\* in calendar order; a date that is not in the calendar raises ValueError.
strptime(v) ==
    CASE v = "2020-01-01" -> [raised |-> FALSE, day |-> 1, time |-> 0]
      [] v = "2021-06-30" -> [raised |-> FALSE, day |-> 2, time |-> 0]
      [] v = "2026-11-04" -> [raised |-> FALSE, day |-> 3, time |-> 0]
      [] v = "2026-11-05" -> [raised |-> FALSE, day |-> 4, time |-> 0]
      [] v = "2026-11-06" -> [raised |-> FALSE, day |-> 5, time |-> 0]
      [] v = "2031-01-01" -> [raised |-> FALSE, day |-> 6, time |-> 0]
      [] v = "2032-06-30" -> [raised |-> FALSE, day |-> 7, time |-> 0]
      [] OTHER            -> [raised |-> TRUE, day |-> 0, time |-> 0]

\* datetime < datetime: by day, then by the time of day.
Before(a, b) == a.day < b.day \/ (a.day = b.day /\ a.time < b.time)

\* A comparison that keeps the case.
lower_none(v) == v

\* str.lower() on the provider types used here.
lower(v) == IF v \in {"hospital", "Hospital", "HOSPITAL"} THEN "hospital" ELSE v

\* A prefix test that every number passes.
startswith_any(v) == TRUE

\* str.startswith("+1") on the E.164 numbers validate_phone produces.
startswith_plus1(v) == v \in {"+12125550147", "+19735550123", "+19735550199"}

\* An error string: its text and the field paths the text names.
Error(text, mentions) == [text |-> text, mentions |-> mentions]

\* dict.get(key, default).  A raw record lists in absent the keys it lacks.
Get(provider_data, key, default) ==
    IF key \in provider_data.absent THEN default ELSE provider_data[key]

\* The field paths of the pydantic ValidationError that
\* MedicalProvider(**provider_data) raises; empty if construction succeeds.
\* Every failing field is reported, not only the first.
ValidationError(provider_data) ==
    LET has(k) == k \notin provider_data.absent
        a == provider_data.address
        c == provider_data.contact_info
        accs == provider_data.accreditations
    IN  {k \in {"provider_name", "provider_type", "address", "contact_info",
                "services", "accreditations"} : ~has(k)}
        \cup (IF has("provider_name") /\ provider_data.provider_name = None
              THEN {"provider_name"} ELSE {})
        \cup (IF has("address") /\ validate_zip_code(a.zip_code) = "Invalid"
              THEN {"address.zip_code"} ELSE {})
        \cup (IF has("contact_info") /\ validate_phone(c.phone_number) = "Invalid"
              THEN {"contact_info.phone_number"} ELSE {})
        \cup (IF has("contact_info") /\ c.fax # None /\ validate_phone(c.fax) = "Invalid"
              THEN {"contact_info.fax"} ELSE {})
        \cup (IF has("contact_info") /\ validate_email(c.email) = "Invalid"
              THEN {"contact_info.email"} ELSE {})
        \cup (IF has("contact_info") /\ validate_website(c.website) = "Invalid"
              THEN {"contact_info.website"} ELSE {})
        \cup (IF has("services") /\ \E i \in DOMAIN provider_data.services :
                     provider_data.services[i] \notin ServiceCategory
              THEN {"services"} ELSE {})
        \cup (IF has("accreditations") /\ \E i \in DOMAIN accs :
                     validate_date(accs[i].issue_date) = "Invalid"
              THEN {"accreditations.issue_date"} ELSE {})
        \cup (IF has("accreditations") /\ \E i \in DOMAIN accs :
                     validate_date(accs[i].expiration_date) = "Invalid"
              THEN {"accreditations.expiration_date"} ELSE {})

\* MedicalProvider(**provider_data) when construction succeeds.
Construct(provider_data) ==
    LET a == provider_data.address
        c == provider_data.contact_info
        accs == provider_data.accreditations
    IN  MedicalProvider(
            None, provider_data.provider_name, provider_data.provider_type,
            Address(a.street1, a.street2, a.city, a.state, a.zip_code, a.country),
            ContactInfo(c.phone_number, c.fax, c.email, c.website),
            provider_data.services,
            [i \in DOMAIN accs |->
                Accreditation(accs[i].organization, accs[i].license_number,
                              accs[i].issue_date, accs[i].expiration_date)],
            NoneList, NoneList, NoneList)

\* errors.append / errors.extend that stops at the first violation.
Extend_first(errors, more) == IF errors # <<>> THEN errors ELSE more

\* errors.append / errors.extend
Extend(errors, more) == errors \o more

\* len(provider.services)
len(services) == Len(services)

\* Business rules that find nothing wrong.
_apply_business_rules_none(provider, now) == <<>>

\* _apply_business_rules(provider), run at the clock reading now.
_apply_business_rules(provider, now) ==
    LET hospital == lower(provider.provider_type) = "hospital"
        e1 == IF hospital /\ \A i \in DOMAIN provider.services :
                                provider.services[i] # "emergency"
              THEN <<Error("Hospitals should offer emergency services", {})>>
              ELSE <<>>
        expired == SelectSeq(provider.accreditations,
                       LAMBDA a : LET exp_date == strptime(a.expiration_date)
                                  IN  ~exp_date.raised /\ Before(exp_date, now))
        e2 == [i \in DOMAIN expired |->
                  Error("Accreditation from " \o expired[i].organization
                            \o " has expired", {})]
        e3 == IF ~startswith_plus1(provider.contact_info.phone_number)
              THEN <<Error("Phone numbers should use international format starting with +1 for US numbers", {})>>
              ELSE <<>>
        e4 == IF hospital /\ len(provider.services) < 3
              THEN <<Error("Hospitals should offer at least 3 different service categories", {})>>
              ELSE <<>>
    IN  Extend(Extend(Extend(Extend(<<>>, e1), e2), e3), e4)

\* _log_errors(provider_name, errors): one entry per error.
_log_errors(error_log, provider_name, errors, now) ==
    error_log \o [i \in DOMAIN errors |->
                     [provider |-> provider_name, error |-> errors[i],
                      timestamp |-> now]]

\* A validator that hands the constructed provider back with the violations.
validate_provider_lenient(error_log, provider_data, now) ==
    LET e == ValidationError(provider_data)
    IN  [ ok |-> e = {},
          errors |-> IF e # {} THEN <<Error("Validation error", e)>>
                     ELSE _apply_business_rules(Construct(provider_data), now),
          provider |-> IF e # {} THEN NullProvider ELSE Construct(provider_data),
          error_log |-> error_log ]

\* validate_provider(provider_data) on a validator whose error log is
\* error_log: the returned triple and the error log afterwards.
validate_provider(error_log, provider_data, now) ==
    LET e == ValidationError(provider_data)
        name == Get(provider_data, "provider_name", "Unknown provider")
        schema == <<Error("Validation error", e)>>
        rules == _apply_business_rules(Construct(provider_data), now)
    IN  IF e # {}
        THEN [ ok |-> FALSE, errors |-> schema, provider |-> NullProvider,
               error_log |-> _log_errors(error_log, name, schema, now) ]
        ELSE IF rules # <<>>
        THEN [ ok |-> FALSE, errors |-> rules, provider |-> NullProvider,
               error_log |-> _log_errors(error_log, name, rules, now) ]
        ELSE [ ok |-> TRUE, errors |-> <<>>, provider |-> Construct(provider_data),
               error_log |-> error_log ]

\* The raw records validate_provider is called with.
RawAddr(zip_code) ==
    [ street1 |-> "1 Main St", street2 |-> None, city |-> "Albany",
      state |-> "NY", zip_code |-> zip_code, country |-> "USA" ]

RawContact(phone_number, email, website) ==
    [ phone_number |-> phone_number, fax |-> None, email |-> email,
      website |-> website ]

RawAcc(organization, expiration_date) ==
    [ organization |-> organization, license_number |-> "L-100",
      issue_date |-> "2020-01-01", expiration_date |-> expiration_date ]

RawAddresses == {RawAddr("12207"), RawAddr("1220")}

\* A US number, a British number, a string that is no number, and a bad
\* e-mail address and a bad URL next to a good number.
RawContacts ==
    { RawContact("(212) 555-0147", "info@example.org", "https://example.org"),
      RawContact("+44 20 8366 1177", None, None),
      RawContact("12345", None, None),
      RawContact("212-555-0147", "info at example", None),
      RawContact("212-555-0147", None, "example") }

RawServices ==
    { <<"primary_care">>, <<"surgery", "emergency">>,
      <<"emergency", "surgery", "primary_care">>,
      <<"emergency", "emergency", "emergency">>,
      <<"primary_care", "dental">> }

\* Accreditations that expire the day before the first clock reading, on it,
\* the day after, on a day that is not in the calendar (alone, and in a month
\* 13 in front of an expired one), and never in shape.
RawAccreditations ==
    { <<>>, <<RawAcc("JCAHO", "2026-11-04")>>, <<RawAcc("JCAHO", "2026-11-05")>>,
      <<RawAcc("JCAHO", "2026-11-06")>>, <<RawAcc("JCAHO", "2026-02-30")>>,
      <<RawAcc("JCAHO", "2026-11-04"), RawAcc("AAAHC", "2021-06-30")>>,
      <<RawAcc("JCAHO", "2026-13-01"), RawAcc("AAAHC", "2021-06-30")>>,
      <<RawAcc("JCAHO", "11/05/2026")>> }

RawRecords ==
    { [ absent |-> ab, provider_name |-> n, provider_type |-> t, address |-> a,
        contact_info |-> c, services |-> sv, accreditations |-> ac ] :
        ab \in {{}, {"provider_name"}, {"contact_info"}},
        n \in {"City Clinic", None},
        t \in {"clinic", "hospital", "Hospital"},
        a \in RawAddresses, c \in RawContacts, sv \in RawServices,
        ac \in RawAccreditations }

\* datetime.now(): midnight sharp or later in the day, on two days.
Clock == {[raised |-> FALSE, day |-> d, time |-> t] : d \in {4, 5}, t \in {0, 1}}

\* A validator about to be called with a raw record at a clock reading.
ValidatorInit ==
    /\ db = EmptyDb
    /\ uuids = 0
    /\ \E provider_data \in RawRecords, now \in Clock :
          op = [name |-> "DataValidator", provider_data |-> provider_data,
                now |-> now]
    /\ ret = Return(None)
    /\ app = DataEntryAutomation(FALSE)
    /\ second = 0

ValidateProvider ==
    /\ op.name = "DataValidator"
    /\ LET r == validate_provider(app.error_log, op.provider_data, op.now)
       IN  /\ ret' = Return([ok |-> r.ok, errors |-> r.errors,
                             provider |-> r.provider])
           /\ app' = [app EXCEPT !.error_log = r.error_log]
    /\ op' = [op EXCEPT !.name = "validate_provider"]
    /\ UNCHANGED <<db, uuids, second>>

ValidatorNext == ValidateProvider

ValidatorSpec == ValidatorInit /\ [][ValidatorNext]_vars

(***************************************************************************)
(* The orchestrator: process_providers (main.py) and the audit table       *)
(***************************************************************************)

\* json.dumps(v): the JSON text of v; json.loads gives v back.
json_dumps(v) == [json |-> v]

\* INSERT INTO validation_failures (provider_name, errors, raw_data): the id
\* is AUTOINCREMENT, the timestamp CURRENT_TIMESTAMP, provider_name NOT NULL.
InsertFailure(tx, provider_name, errors, raw_data, now) ==
    IF tx.err THEN tx
    ELSE IF provider_name = None THEN Raised(tx)
    ELSE [tx EXCEPT !.db.validation_failures =
            Append(@, [ id |-> Len(@) + 1, provider_name |-> provider_name,
                        timestamp |-> now, errors |-> errors,
                        raw_data |-> raw_data ])]

\* json.loads(text)
json_loads(text) == text.json

\* A dict argument that is None, and the NULL of the raw_data column.
NoneDict == [is_none |-> TRUE]

\* if raw_data: None is falsy, a record with fields is not.
TruthyDict(raw_data) == "is_none" \notin DOMAIN raw_data

\* log_validation_failure(provider_name, errors, raw_data): the database
\* afterwards and the outcome.  The except block rolls back and logs; it does
\* not raise, so the call returns None whether or not the row was written.
log_validation_failure(d, provider_name, errors, raw_data, now, fault) ==
    LET t1 == InsertFailure(Fault(Begin(d), fault, 1), provider_name,
                            json_dumps(errors),
                            IF TruthyDict(raw_data) THEN json_dumps(raw_data)
                            ELSE NoneDict,
                            now)
    IN  IF t1.err THEN [db |-> rollback(d, t1), ret |-> Return(None)]
        ELSE [db |-> commit(d, t1), ret |-> Return(None)]

\* An unset limit argument (limit: int = None), and a limit of n rows.
NoLimit == [is_none |-> TRUE, value |-> 0]

LimitOf(n) == [is_none |-> FALSE, value |-> n]

\* ORDER BY timestamp DESC, one row at a time: the row goes behind the rows
\* sorted so far whose timestamp is not smaller.  SQLite's sorter leaves rows
\* of equal timestamp in the order of the table scan, which is rowid order.
InsertDesc(sorted, row) ==
    LET k == Cardinality({i \in DOMAIN sorted :
                            ~Before(sorted[i].timestamp, row.timestamp)})
    IN  SubSeq(sorted, 1, k) \o <<row>> \o SubSeq(sorted, k + 1, Len(sorted))

RECURSIVE OrderByTimestampDesc(_, _)
OrderByTimestampDesc(sorted, rows) ==
    IF rows = <<>> THEN sorted
    ELSE OrderByTimestampDesc(InsertDesc(sorted, Head(rows)), Tail(rows))

\* if limit: query += " LIMIT n"  (None and 0 add no LIMIT clause)
Limit(rows, limit) ==
    IF limit.is_none \/ limit.value = 0 \/ limit.value >= Len(rows) THEN rows
    ELSE SubSeq(rows, 1, limit.value)

\* get_validation_failures(limit): the audit rows as dicts.
get_validation_failures(d, limit) ==
    LET rows == Limit(OrderByTimestampDesc(<<>>, d.validation_failures), limit)
    IN  Return([i \in DOMAIN rows |->
                   [ id |-> rows[i].id, provider_name |-> rows[i].provider_name,
                     timestamp |-> rows[i].timestamp,
                     errors |-> json_loads(rows[i].errors),
                     raw_data |-> IF rows[i].raw_data = NoneDict THEN NoneDict
                                  ELSE json_loads(rows[i].raw_data) ]])

\* s.lower().replace(" ", "_") on the service strings used here.
normalize_service(s) ==
    CASE s = "Primary Care" -> "primary_care"
      [] s = "Emergency"    -> "emergency"
      [] OTHER              -> s

\* A service mapping that drops the strings that map to no ServiceCategory.
MapServices_drop(provider_data) ==
    LET mapped == [i \in DOMAIN provider_data.services |->
                      normalize_service(provider_data.services[i])]
    IN  [provider_data EXCEPT !.services =
            SelectSeq(mapped, LAMBDA x : x \in ServiceCategory)]

\* The service mapping in front of validation: the list is replaced by the
\* enum members if every string maps to one, and left as it is if one does
\* not (ValueError inside the list comprehension).
MapServices(provider_data) ==
    IF "services" \in provider_data.absent THEN provider_data
    ELSE LET mapped == [i \in DOMAIN provider_data.services |->
                           normalize_service(provider_data.services[i])]
         IN  IF \E i \in DOMAIN mapped : mapped[i] \notin ServiceCategory
             THEN provider_data
             ELSE [provider_data EXCEPT !.services = mapped]

\* if is_valid and provider:
Accepted(v) == v.ok /\ v.provider # NullProvider

\* One turn of the validation loop with the result v of validate_provider:
\* the provider joins the valid ones, or the failure is noted on the object
\* and, with storage, logged to the audit table.  st holds the valid
\* providers collected, self.validation_failures, the validator's error log
\* and the database.
Collect(st, v, provider_data, use_db, now) ==
    IF Accepted(v)
    THEN [st EXCEPT !.valid_providers = Append(@, v.provider),
                    !.error_log = v.error_log]
    ELSE [st EXCEPT
            !.validation_failures =
                Append(@, [ provider_name |->
                                Get(provider_data, "provider_name", "Unknown"),
                            errors |-> v.errors ]),
            !.error_log = v.error_log,
            !.db = IF use_db
                   THEN log_validation_failure(
                            @, Get(provider_data, "provider_name", "Unknown"),
                            v.errors, provider_data, now, 0).db
                   ELSE @]

\* The validation loop of process_providers over the records still to do.
RECURSIVE ValidateAll(_, _, _, _)
ValidateAll(st, providers_data, use_db, now) ==
    IF providers_data = <<>> THEN st
    ELSE ValidateAll(
             Collect(st,
                     validate_provider(st.error_log,
                                       MapServices(Head(providers_data)), now),
                     MapServices(Head(providers_data)), use_db, now),
             Tail(providers_data), use_db, now)

\* A submission loop that ends at the first batch whose submission fails.
RECURSIVE SubmitAll_abort(_, _, _, _)
SubmitAll_abort(valid_providers, batch_size, k, api_fail) ==
    IF valid_providers = <<>>
    THEN [batches |-> <<>>, processed |-> <<>>, calls |-> <<>>]
    ELSE LET size == IF Len(valid_providers) < batch_size
                     THEN Len(valid_providers) ELSE batch_size
             batch == SubSeq(valid_providers, 1, size)
             failed == k \in api_fail
             rest == SubmitAll_abort(
                         IF failed THEN <<>>
                         ELSE SubSeq(valid_providers, size + 1, Len(valid_providers)),
                         batch_size, k + 1, api_fail)
         IN  [ batches |-> <<[ count |-> size,
                               status |-> IF failed THEN "failed" ELSE "submitted" ]>>
                           \o rest.batches,
               processed |-> (IF failed THEN <<>> ELSE batch) \o rest.processed,
               calls |-> <<batch>> \o rest.calls ]

\* A submission loop that notes a batch as processed before it submits it.
RECURSIVE SubmitAll_noted(_, _, _, _)
SubmitAll_noted(valid_providers, batch_size, k, api_fail) ==
    IF valid_providers = <<>>
    THEN [batches |-> <<>>, processed |-> <<>>, calls |-> <<>>]
    ELSE LET size == IF Len(valid_providers) < batch_size
                     THEN Len(valid_providers) ELSE batch_size
             batch == SubSeq(valid_providers, 1, size)
             rest == SubmitAll_noted(
                         SubSeq(valid_providers, size + 1, Len(valid_providers)),
                         batch_size, k + 1, api_fail)
             failed == k \in api_fail
         IN  [ batches |-> <<[ count |-> size,
                               status |-> IF failed THEN "failed" ELSE "submitted" ]>>
                           \o rest.batches,
               processed |-> batch \o rest.processed,
               calls |-> <<batch>> \o rest.calls ]

\* The submission loop: for i in range(0, len(valid_providers), batch_size).
\* api_fail holds the numbers of the batches whose submission raises.  The
\* result lists the outcome entries, the providers of the submitted batches
\* and the batches handed to the API client.
RECURSIVE SubmitAll(_, _, _, _)
SubmitAll(valid_providers, batch_size, k, api_fail) ==
    IF valid_providers = <<>>
    THEN [batches |-> <<>>, processed |-> <<>>, calls |-> <<>>]
    ELSE LET size == IF Len(valid_providers) < batch_size
                     THEN Len(valid_providers) ELSE batch_size
             batch == SubSeq(valid_providers, 1, size)
             rest == SubmitAll(SubSeq(valid_providers, size + 1, Len(valid_providers)),
                               batch_size, k + 1, api_fail)
             failed == k \in api_fail
         IN  [ batches |-> <<[ count |-> size,
                               status |-> IF failed THEN "failed" ELSE "submitted" ]>>
                           \o rest.batches,
               processed |-> (IF failed THEN <<>> ELSE batch) \o rest.processed,
               calls |-> <<batch>> \o rest.calls ]

\* if self.use_db and valid_providers: add_providers_batch(valid_providers)
StoreValid(a, n, st, t) ==
    IF a.use_db /\ st.valid_providers # <<>>
    THEN add_providers_batch(st.db, n, st.valid_providers,
                             [i \in DOMAIN st.valid_providers |-> 0], t)
    ELSE [db |-> st.db, uuids |-> n, provider_ids |-> <<>>, items |-> <<>>]

\* What process_providers leaves behind and returns, given the outcome st of
\* the validation loop, b of the storage step and sub of the submission
\* loop: the object, the database and the uuid count afterwards, the
\* returned statistics, and the list handed to add_providers_batch.
Results(a, providers_data, st, b, sub) ==
    [ app |-> [a EXCEPT !.validation_failures = st.validation_failures,
                        !.error_log = st.error_log,
                        !.processed_providers = @ \o sub.processed,
                        !.submitted = @ \o sub.calls],
      db |-> b.db,
      uuids |-> b.uuids,
      results |-> [ total_providers |-> Len(providers_data),
                    valid_providers |-> Len(st.valid_providers),
                    validation_failures |-> Len(st.validation_failures),
                    batches |-> sub.batches,
                    db_results |->
                        [ is_none |-> ~(a.use_db /\ st.valid_providers # <<>>),
                          providers_stored |-> Len(b.provider_ids),
                          provider_ids |-> b.provider_ids ] ],
      stored |-> IF a.use_db THEN st.valid_providers ELSE <<>> ]

\* The valid providers whose add_provider call did not raise.
Kept(valid_providers, items) ==
    LET pairs == [i \in DOMAIN valid_providers |->
                     [provider |-> valid_providers[i], raised |-> items[i].raised]]
        kept == SelectSeq(pairs, LAMBDA x : ~x.raised)
    IN  [i \in DOMAIN kept |-> kept[i].provider]

\* A run that submits the providers it could store and no others.
StoreAndSubmit_stored(a, n, providers_data, batch_size, api_fail, st, t) ==
    Results(a, providers_data, st, StoreValid(a, n, st, t),
            SubmitAll(IF a.use_db /\ st.valid_providers # <<>>
                      THEN Kept(st.valid_providers, StoreValid(a, n, st, t).items)
                      ELSE st.valid_providers,
                      batch_size, 1, api_fail))

\* The part of process_providers after the validation loop.
StoreAndSubmit(a, n, providers_data, batch_size, api_fail, st, t) ==
    Results(a, providers_data, st, StoreValid(a, n, st, t),
            SubmitAll(st.valid_providers, batch_size, 1, api_fail))

\* process_providers(providers_data, batch_size) on the object a with the
\* database d, n uuids drawn so far; now is what datetime.now() reads and t
\* the second SQLite's clock is in.
process_providers(a, d, n, providers_data, batch_size, now, api_fail, t) ==
    StoreAndSubmit(a, n, providers_data, batch_size, api_fail,
                   ValidateAll([ valid_providers |-> <<>>,
                                 validation_failures |-> a.validation_failures,
                                 error_log |-> a.error_log, db |-> d ],
                               providers_data, a.use_db, now), t)

\* Number of process_providers calls explored on one object.
MaxRuns == 2

\* Records handed to one object over all its calls.
MaxRecords == 3

RawRecord(provider_name, provider_type, phone_number, services) ==
    [ absent |-> {}, provider_name |-> provider_name,
      provider_type |-> provider_type, address |-> RawAddr("12207"),
      contact_info |-> RawContact(phone_number, None, None),
      services |-> services, accreditations |-> <<>> ]

\* The records of a run: a valid clinic and a valid hospital, a hospital that
\* breaks the business rules, a clinic whose phone number does not parse, a
\* record whose name is null, a clinic one of whose services maps to no
\* ServiceCategory, and a valid clinic that lists one service twice.
PipelineRecords ==
    { RawRecord("City Clinic", "clinic", "212-555-0147", <<"Primary Care">>),
      RawRecord("Twin Clinic", "clinic", "212-555-0147", <<"Primary Care", "primary_care">>),
      RawRecord("Dental Clinic", "clinic", "212-555-0147", <<"Primary Care", "dental">>),
      RawRecord("General Hospital", "hospital", "(212) 555-0147",
                <<"emergency", "surgery", "primary_care">>),
      RawRecord("General Hospital", "Hospital", "212-555-0147", <<"Primary Care">>),
      RawRecord("City Clinic", "clinic", "12345", <<"primary_care">>),
      RawRecord(None, "clinic", "212-555-0147", <<"primary_care">>) }

PipelineInputs == UNION {[1..n -> PipelineRecords] : n \in 0..MaxRecords}

PipelineClock == {now \in Clock : now.day = 4 /\ now.time = 1}

\* How a run submits: one provider per batch with the second submission
\* failing (a run with one valid provider has every submission accepted), or
\* two per batch with the first submission failing.
Submissions ==
    { [batch_size |-> 1, api_fail |-> {2}], [batch_size |-> 2, api_fail |-> {1}] }

\* The object after construction, with or without storage.
PipelineInit ==
    /\ db = EmptyDb
    /\ uuids = 0
    /\ op = [name |-> "DataEntryAutomation", run |-> 0, records |-> 0]
    /\ ret = Return(None)
    /\ \E use_db \in BOOLEAN : app = DataEntryAutomation(use_db)
    /\ second = 0

\* The state after a call whose outcome is r.
Returned(r, providers_data, batch_size, now, api_fail) ==
    /\ app' = r.app
    /\ db' = r.db
    /\ uuids' = r.uuids
    /\ ret' = [raised |-> FALSE, value |-> r.results, stored |-> r.stored]
    /\ op' = [ name |-> "process_providers", run |-> op.run + 1,
               records |-> op.records + Len(providers_data),
               providers_data |-> providers_data, batch_size |-> batch_size,
               now |-> now, api_fail |-> api_fail ]
    /\ UNCHANGED second

ProcessProviders ==
    /\ op.run < MaxRuns
    /\ \E providers_data \in PipelineInputs, now \in PipelineClock,
          s \in Submissions :
          /\ op.records + Len(providers_data) <= MaxRecords
          /\ Returned(process_providers(app, db, uuids, providers_data,
                                        s.batch_size, now, s.api_fail, second),
                      providers_data, s.batch_size, now, s.api_fail)

PipelineNext == ProcessProviders

PipelineSpec == PipelineInit /\ [][PipelineNext]_vars

(***************************************************************************)
(* The audit table on its own: log_validation_failure and                  *)
(* get_validation_failures                                                 *)
(***************************************************************************)

\* Rows the audit table is filled up to.
MaxFailures == 3

\* What log_validation_failure is called with: a name or None, one error
\* list, and the raw record or nothing.
AuditNames == {"City Clinic", "General Hospital", None}

AuditErrors == <<Error("Validation error", {"contact_info.phone_number"})>>

AuditData ==
    {NoneDict, RawRecord("City Clinic", "clinic", "12345", <<"primary_care">>)}

\* CURRENT_TIMESTAMP, which counts whole seconds: the readings of Clock taken
\* as successive seconds.  A reading is never earlier than a stored one.
CurrentTimestamps(d) ==
    {now \in Clock : \A i \in DOMAIN d.validation_failures :
                        ~Before(now, d.validation_failures[i].timestamp)}

\* log_validation_failure called with one of the given names and raw records
\* at one of the given clock readings.
LogValidationFailureOf(names, records, readings) ==
    /\ Len(db.validation_failures) < MaxFailures
    /\ \E provider_name \in names, raw_data \in records,
          now \in readings \cap CurrentTimestamps(db), fault \in {0, 1} :
          LET r == log_validation_failure(db, provider_name, AuditErrors,
                                          raw_data, now, fault)
          IN  /\ db' = r.db
              /\ ret' = r.ret
              /\ op' = [ name |-> "log_validation_failure",
                         provider_name |-> provider_name, raw_data |-> raw_data,
                         now |-> now, fault |-> fault # 0 ]
    /\ UNCHANGED <<uuids, app, second>>

LogValidationFailure == LogValidationFailureOf(AuditNames, AuditData, Clock)

GetValidationFailures ==
    \E limit \in {NoLimit, LimitOf(0), LimitOf(1), LimitOf(2)} :
        /\ ret' = get_validation_failures(db, limit)
        /\ op' = [name |-> "get_validation_failures", limit |-> limit]
        /\ UNCHANGED <<db, uuids, app, second>>

AuditNext ==
    \/ LogValidationFailure
    \/ GetValidationFailures

AuditSpec == Init /\ [][AuditNext]_vars

(***************************************************************************)
(* The audit table next to the provider tables: log_validation_failure     *)
(* between add_provider, update_provider and delete_provider               *)
(***************************************************************************)

\* The failures logged between the provider calls: under the name of a
\* provider or under no name (NOT NULL fails), without the raw record.
LedgerNext ==
    \/ AddProviderOf(ClinicAndHospital)
    \/ UpdateProviderOf(ClinicAndHospital)
    \/ DeleteProvider
    \/ LogValidationFailureOf({"City Clinic", None}, {NoneDict}, PipelineClock)

LedgerSpec == Init /\ [][LedgerNext]_vars

(***************************************************************************)
(* Properties                                                              *)
(***************************************************************************)

\* The items of a Python list read as a set.
SetOf(seq) == {seq[i] : i \in DOMAIN seq}

\* The rows of an association table that belong to a provider, as names.
Linked(d, table, provider_id) ==
    {r.name : r \in {x \in d[table] : x.provider_id = provider_id}}

\* No row of any provider-scoped table references the id.
Absent(d, provider_id) ==
    /\ provider_id \notin ProviderIds(d)
    /\ \A t \in RowTables : RowsOf(d, t, provider_id) = <<>>
    /\ \A t \in LinkTables : Linked(d, t, provider_id) = {}

\* The provider is stored whole: its core row, one address, one contact.
Whole(d, provider_id) ==
    /\ provider_id \in ProviderIds(d)
    /\ Len(RowsOf(d, "addresses", provider_id)) = 1
    /\ Len(RowsOf(d, "contact_info", provider_id)) = 1

\* The core rows carrying a name.
RowsNamed(d, provider_name) ==
    {i \in DOMAIN d.providers : d.providers[i].provider_name = provider_name}

\* Some lookup table holds a value no association row uses any more.
Orphan(d) ==
    \E t \in LinkTables : \E n \in d[LookupOf[t]] : \A r \in d[t] : r.name # n

\* C1: add_provider is all-or-nothing.  A call in which a statement fails
\* raises, and a call that raises leaves every table, lookup tables included,
\* exactly as it was; between calls every id is either stored whole (core
\* row, address, contact) or referenced by no row at all.
C1_AddAllOrNothing ==
    /\ [][ op'.name = "add_provider" =>
             /\ op'.fault => ret'.raised
             /\ ret'.raised => db' = db ]_vars
    /\ [](\A id \in Ids : Whole(db, id) \/ Absent(db, id))

\* An add_provider that failed in its last step, after the provider's rows
\* and lookup values had been written, with another provider stored.
C1_Witness ==
    /\ op.name = "add_provider"
    /\ op.fault
    /\ ret.raised
    /\ Truthy(op.provider.insurance_accepted)
    /\ db.providers # <<>>
    /\ db.insurance_plans = {}

ItemsOf(l) == SetOf(l.items)

SameContent(p, q) ==
    /\ p.provider_name = q.provider_name
    /\ p.provider_type = q.provider_type
    /\ p.address = q.address
    /\ p.contact_info = q.contact_info
    /\ p.accreditations = q.accreditations
    /\ SetOf(p.services) = SetOf(q.services)
    /\ ItemsOf(p.specialties) = ItemsOf(q.specialties)
    /\ ItemsOf(p.languages) = ItemsOf(q.languages)
    /\ ItemsOf(p.insurance_accepted) = ItemsOf(q.insurance_accepted)

\* C3 as stated: for every provider p, add_provider(p) returns an id under
\* which get_provider returns a provider equal to p in every field except the
\* identifier.
C3_RoundTrip ==
    (op.name = "add_provider" /\ ~op.fault) =>
        /\ ~ret.raised
        /\ LET g == get_provider(db, ret.value)
           IN  /\ ~g.raised
               /\ g.value # NullProvider
               /\ SameContent(g.value, op.provider)

\* C4: after delete_provider(id) returns true, get_provider(id) returns null,
\* no address, contact, accreditation or association row references id, and
\* every lookup row that existed before the delete still exists.
C4_DeleteCascades ==
    [][ (op'.name = "delete_provider" /\ ~ret'.raised /\ ret'.value = TRUE) =>
          /\ get_provider(db', op'.provider_id) = Return(NullProvider)
          /\ Absent(db', op'.provider_id)
          /\ \A t \in LookupTables : db[t] \subseteq db'[t] ]_vars

\* A successful delete that left a lookup value without any user while
\* another provider is still stored.
C4_Witness ==
    /\ op.name = "delete_provider"
    /\ ~ret.raised
    /\ ret.value = TRUE
    /\ db.providers # <<>>
    /\ "Aetna" \in db.insurance_plans
    /\ db.provider_insurance = {}

\* C5: after update_provider(id, p) returns true, get_provider(id) returns
\* exactly p's services, accreditations, specialties, languages and insurance
\* plans, never a union with what was stored before.
C5_UpdateReplaces ==
    (op.name = "update_provider" /\ ~ret.raised /\ ret.value = TRUE) =>
        LET g == get_provider(db, op.provider_id)
        IN  /\ ~g.raised
            /\ g.value # NullProvider
            /\ SetOf(g.value.services) = SetOf(op.provider.services)
            /\ g.value.accreditations = op.provider.accreditations
            /\ ItemsOf(g.value.specialties) = ItemsOf(op.provider.specialties)
            /\ ItemsOf(g.value.languages) = ItemsOf(op.provider.languages)
            /\ ItemsOf(g.value.insurance_accepted) = ItemsOf(op.provider.insurance_accepted)

\* A successful update to the single service primary_care and no specialties
\* of the only provider stored, under the only id ever used, in a database
\* whose lookup tables hold emergency and Cardiology from the collections
\* stored under that id before: nothing of them is left on the provider.
C5_Witness ==
    /\ op.name = "update_provider"
    /\ ~ret.raised
    /\ ret.value = TRUE
    /\ op.provider.services = <<"primary_care">>
    /\ ~Truthy(op.provider.specialties)
    /\ Len(db.providers) = 1
    /\ uuids = 0
    /\ "emergency" \in db.services
    /\ "Cardiology" \in db.specialties
    /\ db.accreditations = <<>>

\* C6: for an id with no core row, get_provider returns null, update_provider
\* and delete_provider return false, none of them raises, and the database is
\* unchanged.
C6_NotFoundIsAValue ==
    [][ (op'.name \in {"get_provider", "update_provider", "delete_provider"}
         /\ op'.provider_id \notin ProviderIds(db)) =>
          /\ ~ret'.raised
          /\ db' = db
          /\ op'.name = "get_provider" => ret'.value = NullProvider
          /\ op'.name # "get_provider" => ret'.value = FALSE ]_vars

\* An update_provider on an id that is not stored, while another provider is.
C6_Witness ==
    /\ op.name = "update_provider"
    /\ ret = Return(FALSE)
    /\ op.provider_id \notin ProviderIds(db)
    /\ db.providers # <<>>

\* C7: every row of the core provider table has exactly one address row and
\* exactly one contact row.
C7_OneAddressOneContact ==
    \A i \in DOMAIN db.providers :
        /\ Len(RowsOf(db, "addresses", db.providers[i].id)) = 1
        /\ Len(RowsOf(db, "contact_info", db.providers[i].id)) = 1

\* Two providers stored, the last call being a successful update.
C7_Witness ==
    /\ Len(db.providers) = 2
    /\ op.name = "update_provider"
    /\ ~ret.raised
    /\ ret.value = TRUE

\* C8: every address, contact, accreditation and association row references
\* a stored provider, and every value in an association table is in its
\* lookup table.
C8_ReferentialIntegrity ==
    /\ \A t \in RowTables : \A i \in DOMAIN db[t] :
          db[t][i].provider_id \in ProviderIds(db)
    /\ \A t \in LinkTables : \A r \in db[t] :
          /\ r.provider_id \in ProviderIds(db)
          /\ r.name \in db[LookupOf[t]]

\* A successful delete that left another provider with its services.
C8_Witness ==
    /\ op.name = "delete_provider"
    /\ ~ret.raised
    /\ ret.value = TRUE
    /\ db.provider_services # {}
    /\ db.accreditations # <<>>

\* C9: a value once present in a lookup table is present in every later
\* state, and every value an association row uses is in its lookup table.
C9_LookupsOnlyGrow ==
    /\ [][ \A t \in LookupTables : db[t] \subseteq db'[t] ]_vars
    /\ [](\A t \in LinkTables : \A r \in db[t] : r.name \in db[LookupOf[t]])

\* A successful update after which a lookup table holds a value that no
\* provider uses.
C9_Witness ==
    /\ op.name = "update_provider"
    /\ ~ret.raised
    /\ ret.value = TRUE
    /\ Orphan(db)

\* A list that holds the same item more than once.
HasRepeat(seq) == \E i, j \in DOMAIN seq : i # j /\ seq[i] = seq[j]

\* C10 as stated: a provider whose service list repeats a ServiceCategory is
\* accepted by add_provider and update_provider, and after an update the
\* association table holds one row per distinct service.
C10_DuplicateServicesAccepted ==
    ( /\ op.name \in {"add_provider", "update_provider"}
      /\ ~op.fault
      /\ HasRepeat(op.provider.services) )
    => /\ ~ret.raised
       /\ (op.name = "update_provider" /\ ret.value = TRUE) =>
             Linked(db, "provider_services", op.provider_id)
                 = SetOf(op.provider.services)

\* The values returned by the calls of a list of outcomes that did not raise,
\* in order.
Successes(items) ==
    LET ok == SelectSeq(items, LAMBDA r : ~r.raised)
    IN  [i \in DOMAIN ok |-> ok[i].value]

\* C11: add_providers_batch is best-effort.  It never raises; add_provider is
\* called for every item, also for those after a failing one; the returned
\* list is, in input order, the ids of the items whose call did not fail; and
\* every id returned is stored when the batch ends.
C11_BatchBestEffort ==
    op.name = "add_providers_batch" =>
        /\ ~ret.raised
        /\ Len(ret.items) = Len(op.providers)
        /\ ret.value = Successes(ret.items)
        /\ \A i \in DOMAIN ret.value : Whole(db, ret.value[i])

\* A batch of three whose second item failed while the first and the third
\* were stored under different ids.
C11_Witness ==
    /\ op.name = "add_providers_batch"
    /\ Len(op.providers) = 3
    /\ ~ret.items[1].raised
    /\ ret.items[2].raised
    /\ ~ret.items[3].raised
    /\ ret.value = <<ret.items[1].value, ret.items[3].value>>
    /\ ret.items[1].value # ret.items[3].value
    /\ op.providers[1].provider_name # op.providers[3].provider_name

(***************************************************************************)
(* Properties of the queries                                               *)
(***************************************************************************)

\* The characters of a text with the ASCII upper-case letters folded.
Folded(chars) == [i \in DOMAIN chars |-> LowerChar(chars[i])]

\* value occurs in text as a substring, under the case rules of LIKE.
Contains(text, value) ==
    \E i \in 0..(Len(text) - Len(value)) :
        SubSeq(Folded(text), i + 1, i + Len(value)) = Folded(value)

\* The stored provider with the core row p meets every recognized criterion
\* present.
Satisfies(d, criteria, p) ==
    LET a == RowsOf(d, "addresses", p.id)
    IN  /\ "provider_name" \in criteria.present =>
              Contains(Chars(p.provider_name), Chars(criteria.provider_name))
        /\ "provider_type" \in criteria.present =>
              p.provider_type = criteria.provider_type
        /\ "state" \in criteria.present =>
              a # <<>> /\ a[1].state = criteria.state
        /\ "city" \in criteria.present =>
              a # <<>> /\ Contains(Chars(a[1].city), Chars(criteria.city))

\* The ids of the stored providers that meet the criteria.
Matching(d, criteria) ==
    {d.providers[i].id : i \in {j \in DOMAIN d.providers :
                                  Satisfies(d, criteria, d.providers[j])}}

\* A list of providers holds exactly the stored providers of ids, each once
\* and as get_provider rebuilds it.
ExactlyOnce(d, providers, ids) ==
    /\ \A id \in ids :
          Cardinality({i \in DOMAIN providers : providers[i].provider_id = id}) = 1
    /\ \A i \in DOMAIN providers :
          /\ providers[i].provider_id \in ids
          /\ get_provider(d, providers[i].provider_id) = Return(providers[i])

\* C21 as stated: search_providers returns exactly the stored providers that
\* satisfy every recognized criterion present (name contains the value, type
\* equals it, state equals it, city contains the value), each once and fully
\* reconstructed.
C21_SearchExact ==
    op.name = "search_providers" =>
        /\ ~ret.raised
        /\ ExactlyOnce(db, ret.value, Matching(db, op.criteria))

\* C22: search_providers with an empty criteria map, or with a map that holds
\* only keys it does not recognize, does not raise and returns the same set
\* of providers as get_all_providers, which is every stored provider;
\* get_all_providers does not raise either.
C22_EmptyCriteriaListAll ==
    /\ (op.name = "search_providers" /\ op.criteria.present \cap Recognized = {}) =>
          /\ ~ret.raised
          /\ ~get_all_providers(db).raised
          /\ SetOf(ret.value) = SetOf(get_all_providers(db).value)
          /\ {ret.value[i].provider_id : i \in DOMAIN ret.value} = ProviderIds(db)
    /\ op.name = "get_all_providers" =>
          /\ ~ret.raised
          /\ Len(ret.value) = Len(db.providers)

\* A search whose only key is one search_providers does not know, with two
\* providers stored: both come back.
C22_Witness ==
    /\ op.name = "search_providers"
    /\ op.criteria.present = {"zip_code"}
    /\ Len(db.providers) = 2
    /\ Len(ret.value) = 2
    /\ ret.value[1] # ret.value[2]

\* C23 as stated: get_validation_failures returns the audit records
\* most-recent-first.  Of any two records returned the one logged later (the
\* one with the greater id) comes first, also when both were logged within
\* the same clock second, and a limit of n keeps the n most recent.
C23_MostRecentFirst ==
    op.name = "get_validation_failures" =>
        /\ ~ret.raised
        /\ \A i, j \in DOMAIN ret.value : i < j => ret.value[i].id > ret.value[j].id
        /\ ret.value # <<>> => ret.value[1].id = Len(db.validation_failures)

\* C24 as stated: a mutating storage operation (add_provider,
\* update_provider, delete_provider, log_validation_failure) in which a
\* statement fails leaves the stored state as it was before the call and
\* raises the exception to its caller.
C24_FailureRollsBackAndRaises ==
    [][ ( /\ op'.name \in {"add_provider", "update_provider", "delete_provider",
                          "log_validation_failure"}
          /\ \/ op'.fault
             \/ op'.name = "log_validation_failure" /\ op'.provider_name = None )
        => /\ db' = db
           /\ ret'.raised ]_vars

(***************************************************************************)
(* Properties of validation                                                *)
(***************************************************************************)

\* A validate_provider call has returned for a record that constructs.
Constructed ==
    op.name = "validate_provider" /\ ValidationError(op.provider_data) = {}

\* The texts of the errors returned.
Texts == {ret.value.errors[i].text : i \in DOMAIN ret.value.errors}

\* The provider type is "hospital" under case-insensitive comparison.
IsHospital(provider_data) ==
    provider_data.provider_type \in {"hospital", "Hospital", "HOSPITAL"}

EmergencyText == "Hospitals should offer emergency services"

MinimumText == "Hospitals should offer at least 3 different service categories"

PhoneText == "Phone numbers should use international format starting with +1 for US numbers"

ExpiredText(organization) == "Accreditation from " \o organization \o " has expired"

C15_HospitalRules ==
    Constructed =>
        LET p == op.provider_data
        IN  /\ (IsHospital(p) /\ "emergency" \notin SetOf(p.services)) =>
                  ~ret.value.ok /\ EmergencyText \in Texts
            /\ (IsHospital(p) /\ Len(p.services) < 3) =>
                  ~ret.value.ok /\ MinimumText \in Texts
            /\ ~IsHospital(p) => EmergencyText \notin Texts /\ MinimumText \notin Texts

\* A "Hospital" with two services, emergency among them, and nothing else
\* wrong: the minimum-services error is the only one.
C15_Witness ==
    /\ Constructed
    /\ op.provider_data.provider_type = "Hospital"
    /\ op.provider_data.services = <<"surgery", "emergency">>
    /\ ~ret.value.ok
    /\ Texts = {MinimumText}

\* The accreditations of a record whose expiration date is a calendar date
\* strictly before the day of the clock reading.
ExpiredBefore(provider_data, now) ==
    {i \in DOMAIN provider_data.accreditations :
        LET exp_date == strptime(provider_data.accreditations[i].expiration_date)
        IN  ~exp_date.raised /\ exp_date.day < now.day}

\* C16: the business rules are all evaluated.  The error list holds one
\* violation for every rule broken (missing emergency, each expired
\* accreditation, phone prefix, fewer than 3 services); a hospital whose only
\* service is primary_care and which has no accreditations fails with exactly
\* two violations.
C16_AllRulesReported ==
    Constructed =>
        LET p == op.provider_data
            errors == ret.value.errors
            count(text) == Cardinality({i \in DOMAIN errors : errors[i].text = text})
            expired == ExpiredBefore(p, op.now)
        IN  /\ (IsHospital(p) /\ "emergency" \notin SetOf(p.services)) =>
                  count(EmergencyText) = 1
            /\ \A i \in expired :
                  count(ExpiredText(p.accreditations[i].organization)) >= 1
            /\ p.contact_info.phone_number = "+44 20 8366 1177" => count(PhoneText) = 1
            /\ (IsHospital(p) /\ Len(p.services) < 3) => count(MinimumText) = 1
            /\ ( /\ p.provider_type = "hospital"
                 /\ p.services = <<"primary_care">>
                 /\ p.accreditations = <<>>
                 /\ p.contact_info.phone_number # "+44 20 8366 1177" )
               => Len(errors) = 2 /\ Texts = {EmergencyText, MinimumText}

\* A hospital that breaks every rule at once, two expired accreditations
\* included: five violations.
C16_Witness ==
    /\ Constructed
    /\ IsHospital(op.provider_data)
    /\ op.provider_data.services = <<"primary_care">>
    /\ Cardinality(ExpiredBefore(op.provider_data, op.now)) = 2
    /\ PhoneText \in Texts
    /\ Len(ret.value.errors) = 5

\* C17 as stated: the minimum-services rule counts distinct services, so a
\* hospital with three or more entries but fewer than three distinct services
\* gets the violation and ok=false.
C17_DistinctServicesCounted ==
    ( /\ Constructed
      /\ IsHospital(op.provider_data)
      /\ Cardinality(SetOf(op.provider_data.services)) < 3 )
    => ~ret.value.ok /\ MinimumText \in Texts

\* C18 as stated: an accreditation with a calendar-valid expiration date
\* gives an 'expired' violation naming its organization if and only if that
\* date is strictly before the current date, at any time of day.
C18_ExpiredIffBeforeToday ==
    Constructed =>
        \A i \in DOMAIN op.provider_data.accreditations :
            LET a == op.provider_data.accreditations[i]
            IN  ~strptime(a.expiration_date).raised =>
                    ( ExpiredText(a.organization) \in Texts
                      <=> i \in ExpiredBefore(op.provider_data, op.now) )

Offending(provider_data) ==
    {k \in provider_data.absent : TRUE}
    \cup (IF "contact_info" \in provider_data.absent THEN {}
          ELSE (IF provider_data.contact_info.phone_number = "12345"
                THEN {"contact_info.phone_number"} ELSE {})
               \cup (IF provider_data.contact_info.email = "info at example"
                     THEN {"contact_info.email"} ELSE {})
               \cup (IF provider_data.contact_info.website = "example"
                     THEN {"contact_info.website"} ELSE {}))
    \cup (IF provider_data.address.zip_code = "1220"
          THEN {"address.zip_code"} ELSE {})

\* C20: for a record that lacks a required field or has a malformed postal
\* code, phone, e-mail or URL, validate_provider does not raise; it returns
\* ok=false, no provider and an error that names each offending field, and
\* no business rule contributes an error.
C20_SchemaErrorsAreValues ==
    (op.name = "validate_provider" /\ Offending(op.provider_data) # {}) =>
        /\ ~ret.raised
        /\ ~ret.value.ok
        /\ ret.value.provider = NullProvider
        /\ Len(ret.value.errors) >= 1
        /\ Offending(op.provider_data) \subseteq ret.value.errors[1].mentions
        /\ Texts = {"Validation error"}

\* A hospital with a single service, which breaks two business rules, whose
\* phone number does not parse and whose postal code is malformed: one error,
\* naming both fields.
C20_Witness ==
    /\ op.name = "validate_provider"
    /\ op.provider_data.absent = {}
    /\ op.provider_data.provider_name # None
    /\ op.provider_data.provider_type = "hospital"
    /\ op.provider_data.services = <<"primary_care">>
    /\ op.provider_data.accreditations = <<>>
    /\ Len(ret.value.errors) = 1
    /\ ret.value.errors[1].mentions = {"contact_info.phone_number", "address.zip_code"}

(***************************************************************************)
(* Properties of the orchestrator                                          *)
(***************************************************************************)

\* The lists of a list, joined in order.
RECURSIVE Concat(_)
Concat(seqs) == IF seqs = <<>> THEN <<>> ELSE Head(seqs) \o Concat(Tail(seqs))

\* What a sequence has gained at its end.
Added(before, after) == SubSeq(after, Len(before) + 1, Len(after))

\* A record of a run passes validation: after the service mapping it
\* constructs and, if it is a hospital, offers emergency among three or more
\* services.  (The records of a run carry a US number and no accreditation.)
IsValid(provider_data) ==
    LET m == MapServices(provider_data)
    IN  /\ ValidationError(m) = {}
        /\ IsHospital(m) => "emergency" \in SetOf(m.services) /\ Len(m.services) >= 3

\* The providers of the records of a run that pass validation, in order.
ValidProviders(providers_data) ==
    LET valid == SelectSeq(providers_data, IsValid)
    IN  [i \in DOMAIN valid |-> Construct(MapServices(valid[i]))]

\* Every core row of rows carries the name and type of a provider of expected.
RowsFrom(rows, expected) ==
    \A i \in DOMAIN rows : \E j \in DOMAIN expected :
        /\ expected[j].provider_name = rows[i].provider_name
        /\ expected[j].provider_type = rows[i].provider_type

\* The tables of the database other than the audit table.
ProviderTables(d) == [d EXCEPT !.validation_failures = <<>>]

\* The list handed to storage and the providers handed to the API are
\* expected, the core rows created come from expected, and nothing but the
\* audit table changes if expected is empty.
OnlyValidPassed(expected, stored, sent, d, e) ==
    /\ stored = expected
    /\ Concat(sent) = expected
    /\ SubSeq(e.providers, 1, Len(d.providers)) = d.providers
    /\ RowsFrom(Added(d.providers, e.providers), expected)
    /\ expected = <<>> => ProviderTables(e) = ProviderTables(d)

\* C12: a record that fails validation never reaches storage as a provider.
\* The list passed to add_providers_batch and the providers handed to the
\* external API are exactly the providers of the records that passed, in
\* input order; every core row a run creates carries the name and type of
\* one of them, and a run without a valid record changes no provider table.
C12_InvalidNeverStored ==
    [][ op'.name = "process_providers" =>
          /\ OnlyValidPassed(
                 ValidProviders(op'.providers_data),
                 IF app.use_db THEN ret'.stored
                 ELSE ValidProviders(op'.providers_data),
                 Added(app.submitted, app'.submitted), db, db')
          /\ ~app.use_db => ret'.stored = <<>> /\ db' = db ]_vars

\* A run with storage over a hospital record that breaks the rules followed
\* by a valid record of the same name: one provider stored, one failure
\* logged.
C12_Witness ==
    /\ op.name = "process_providers"
    /\ app.use_db
    /\ op.run = 1
    /\ Len(op.providers_data) = 2
    /\ ~IsValid(op.providers_data[1])
    /\ IsValid(op.providers_data[2])
    /\ op.providers_data[1].provider_name = op.providers_data[2].provider_name
    /\ Len(db.providers) = 1
    /\ db.providers[1].provider_type = "hospital"
    /\ Len(db.validation_failures) = 1

\* C13 as stated: with storage, a run adds one audit row per failed record,
\* in order, each carrying the record's name, its error list and the raw
\* record.
C13_EveryFailureAudited ==
    [][ (op'.name = "process_providers" /\ app.use_db) =>
          LET failed == SelectSeq(op'.providers_data, LAMBDA r : ~IsValid(r))
              rows == Added(db.validation_failures, db'.validation_failures)
          IN  /\ Len(rows) = Len(failed)
              /\ \A i \in DOMAIN rows :
                    /\ rows[i].provider_name = failed[i].provider_name
                    /\ rows[i].errors.json # <<>>
                    /\ rows[i].raw_data = json_dumps(failed[i]) ]_vars

\* ceil(v / b)
Ceil(v, b) == (v + b - 1) \div b

\* The counts of a list of outcome entries, added up.
RECURSIVE SumCounts(_)
SumCounts(batches) ==
    IF batches = <<>> THEN 0 ELSE Head(batches).count + SumCounts(Tail(batches))

\* calls are the submissions of valid in batches of b, and batches their
\* outcome entries, the submissions numbered in api_fail having failed.
Batched(valid, b, api_fail, calls, batches) ==
    /\ Len(calls) = Ceil(Len(valid), b)
    /\ Concat(calls) = valid
    /\ \A i \in DOMAIN calls :
          /\ Len(calls[i]) <= b
          /\ i < Len(calls) => Len(calls[i]) = b
    /\ Len(batches) = Len(calls)
    /\ \A i \in DOMAIN batches :
          /\ batches[i].count = Len(calls[i])
          /\ batches[i].status = IF i \in api_fail THEN "failed" ELSE "submitted"
    /\ SumCounts(batches) = Len(valid)

\* C25: for V valid providers and a batch size b >= 1, process_providers
\* makes ceil(V/b) submissions in input order, each of at most b providers and
\* all but the last of exactly b; every submission has one outcome entry,
\* 'submitted' or 'failed', the counts add up to V, and a failed submission
\* does not keep a later batch from being submitted.
C25_BatchedSubmission ==
    [][ op'.name = "process_providers" =>
          Batched(ValidProviders(op'.providers_data), op'.batch_size,
                  op'.api_fail, Added(app.submitted, app'.submitted),
                  ret'.value.batches) ]_vars

\* A run of three valid records submitted one by one: the second submission
\* failed, the third was made and accepted.
C25_Witness ==
    /\ op.name = "process_providers"
    /\ op.batch_size = 1
    /\ Len(op.providers_data) = 3
    /\ Len(ret.value.batches) = 3
    /\ ret.value.batches[2].status = "failed"
    /\ ret.value.batches[3].status = "submitted"
    /\ Len(app.submitted) = 3
    /\ Len(app.processed_providers) = 2

\* C26 as stated: the counts process_providers returns describe the input of
\* that call, also of a second or later call on the same object: total is the
\* number of input records, valid the number that passed validation, failed
\* the number that did not, and total = valid + failed.
C26_CountsDescribeTheCall ==
    op.name = "process_providers" =>
        LET v == ret.value
        IN  /\ v.total_providers = Len(op.providers_data)
            /\ v.valid_providers = Len(SelectSeq(op.providers_data, IsValid))
            /\ v.validation_failures
                   = Len(SelectSeq(op.providers_data, LAMBDA r : ~IsValid(r)))
            /\ v.total_providers = v.valid_providers + v.validation_failures

\* A record has a service string that maps to no ServiceCategory.
Unmappable(provider_data) ==
    \E i \in DOMAIN provider_data.services :
        normalize_service(provider_data.services[i]) \notin ServiceCategory

\* How often a name occurs in a list of records or of failure entries.
Occurrences(seq, provider_name) ==
    Cardinality({i \in DOMAIN seq : seq[i].provider_name = provider_name})

\* The records with an unmappable service are noted as failures, one entry
\* each, and none of them is stored or sent; every core row added has the
\* services of a record of its name, all of them.
WholeRecordInvalid(providers_data, failures, stored, sent, rows, e) ==
    /\ \A i \in DOMAIN providers_data :
          Unmappable(providers_data[i]) =>
              LET n == providers_data[i].provider_name
              IN  /\ Occurrences(failures, n) = Occurrences(providers_data, n)
                  /\ Occurrences(stored, n) = 0
                  /\ Occurrences(sent, n) = 0
                  /\ Occurrences(rows, n) = 0
    /\ \A i \in DOMAIN rows :
          \E j \in DOMAIN providers_data :
              /\ providers_data[j].provider_name = rows[i].provider_name
              /\ Linked(e, "provider_services", rows[i].id)
                     = {normalize_service(providers_data[j].services[k]) :
                          k \in DOMAIN providers_data[j].services}

\* C27: in process_providers a record whose service list holds a string that
\* maps to no ServiceCategory (after lower-casing and replacing spaces by
\* underscores) is invalid as a whole.  It is counted as a validation failure
\* and is neither stored nor submitted, and no provider is stored with fewer
\* services than its record declared.
C27_UnmappableServiceRejectsRecord ==
    [][ op'.name = "process_providers" =>
          WholeRecordInvalid(op'.providers_data,
                             Added(app.validation_failures, app'.validation_failures),
                             ret'.stored,
                             Concat(Added(app.submitted, app'.submitted)),
                             Added(db.providers, db'.providers), db') ]_vars

\* A run with storage of a valid clinic and of a clinic with a dental
\* service: one provider stored and submitted, one failure, one audit row
\* that carries the record's service strings as they were given.
C27_Witness ==
    /\ op.name = "process_providers"
    /\ app.use_db
    /\ Len(op.providers_data) = 2
    /\ ~Unmappable(op.providers_data[1])
    /\ Unmappable(op.providers_data[2])
    /\ Len(db.providers) = 1
    /\ ret.value.validation_failures = 1
    /\ Len(db.validation_failures) = 1
    /\ db.validation_failures[1].raw_data.json.services = <<"Primary Care", "dental">>

(***************************************************************************)
(* Properties of identifiers and of the name check                         *)
(***************************************************************************)

\* add_provider has just created a core row.
Created == op'.name = "add_provider" /\ ~ret'.raised /\ db'.providers # db.providers

\* C28 as stated, for the providers stored and the provider the call before
\* has deleted: the id under which add_provider creates a core row is the id
\* of no stored provider and not the id of the provider just deleted.
C28_IdsNeverReused ==
    [][ Created =>
          /\ ret'.value \notin ProviderIds(db)
          /\ (op.name = "delete_provider" /\ ret = Return(TRUE)) =>
                ret'.value # op.provider_id ]_vars

\* C29: add_provider with the name of a stored provider changes nothing.
\* Every table, the lookup tables included, is the same before and after,
\* whatever else the incoming provider holds, and the call returns the id of
\* the stored provider.
C29_SameNameAddChangesNothing ==
    [][ ( /\ op'.name = "add_provider"
          /\ RowsNamed(db, op'.provider.provider_name) # {} )
        => /\ db' = db
           /\ ~ret'.raised
           /\ \E i \in RowsNamed(db, op'.provider.provider_name) :
                 db.providers[i].id = ret'.value ]_vars

\* An add_provider under a stored name whose provider carries an id of its
\* own, another type and a specialty: the stored id came back, and the
\* specialties table is still empty.
C29_Witness ==
    /\ op.name = "add_provider"
    /\ ~ret.raised
    /\ op.provider.provider_id # None
    /\ ret.value # op.provider.provider_id
    /\ Truthy(op.provider.specialties)
    /\ db.specialties = {}
    /\ \E i \in DOMAIN db.providers :
          /\ db.providers[i].id = ret.value
          /\ db.providers[i].provider_name = op.provider.provider_name
          /\ db.providers[i].provider_type # op.provider.provider_type

(***************************************************************************)
(* Properties of the accreditation dates                                   *)
(***************************************************************************)

\* The accreditations of a record whose expiration date has the shape
\* YYYY-MM-DD but is no date of the calendar: 30 February, month 13.
Uncalendar(provider_data) ==
    {i \in DOMAIN provider_data.accreditations :
        provider_data.accreditations[i].expiration_date
            \in {"2026-02-30", "2026-13-01"}}

\* The record without the accreditations numbered in skip.
Without(provider_data, skip) ==
    [provider_data EXCEPT !.accreditations =
        [i \in 1..Len(@) |-> IF i \in skip THEN <<>> ELSE <<@[i]>>]]

Flat(provider_data) ==
    [provider_data EXCEPT !.accreditations = Concat(@)]

\* C30: an accreditation whose expiration date has the shape YYYY-MM-DD but
\* is no calendar date is accepted by construction and skipped by the expiry
\* rule: no error names the field or the expiry of that accreditation, and
\* the result is the one the record gets without that accreditation.
C30_UncalendarDatesSkipped ==
    ( /\ op.name = "validate_provider"
      /\ "accreditations" \notin op.provider_data.absent
      /\ Uncalendar(op.provider_data) # {} )
    => LET p == op.provider_data
           q == validate_provider(<<>>, Flat(Without(p, Uncalendar(p))), op.now)
       IN  /\ "accreditations.expiration_date" \notin ValidationError(p)
           /\ \A i \in Uncalendar(p) :
                 ExpiredText(p.accreditations[i].organization) \notin Texts
           /\ ret.value.ok = q.ok
           /\ ret.value.errors = q.errors

\* A clinic whose only accreditation expires on 30 February: it passes.
C30_Witness ==
    /\ op.name = "validate_provider"
    /\ "accreditations" \notin op.provider_data.absent
    /\ Len(op.provider_data.accreditations) = 1
    /\ op.provider_data.accreditations[1].expiration_date = "2026-02-30"
    /\ Uncalendar(op.provider_data) = {1}
    /\ ret.value.ok
    /\ Len(ret.value.provider.accreditations) = 1

(***************************************************************************)
(* Properties of update_provider's reach                                   *)
(***************************************************************************)

\* Everything stored for a provider: its core row, its rows of the three
\* row tables in rowid order, and its rows of the four association tables.
Stored(d, provider_id) ==
    [ core |-> SelectSeq(d.providers, LAMBDA r : r.id = provider_id),
      rows |-> [t \in RowTables |-> RowsOf(d, t, provider_id)],
      links |-> [t \in LinkTables |-> Linked(d, t, provider_id)] ]

\* C34: update_provider(id, p) touches the provider identified by id only.
\* The core table keeps its ids row for row, whatever p.provider_id holds,
\* every row keeps its created_at, and the core, address, contact,
\* accreditation and association rows of every other provider are the same
\* before and after the call.
C34_UpdateTouchesOneProvider ==
    [][ op'.name = "update_provider" =>
          /\ DOMAIN db'.providers = DOMAIN db.providers
          /\ \A i \in DOMAIN db.providers :
                /\ db'.providers[i].id = db.providers[i].id
                /\ db'.providers[i].created_at = db.providers[i].created_at
          /\ \A id \in Ids \ {op'.provider_id} :
                Stored(db', id) = Stored(db, id) ]_vars

\* A successful update, a second after the provider was added, with a
\* provider value that carries the id of the other stored provider: the row
\* has the new name and type under its old id and creation time.
C34_Witness ==
    /\ op.name = "update_provider"
    /\ ret = Return(TRUE)
    /\ op.provider.provider_id # None
    /\ op.provider.provider_id # op.provider_id
    /\ op.provider.provider_id \in ProviderIds(db)
    /\ \E i \in DOMAIN db.providers :
          /\ db.providers[i].id = op.provider_id
          /\ db.providers[i].provider_name = op.provider.provider_name
          /\ db.providers[i].created_at = CURRENT_TIMESTAMP(0)
          /\ db.providers[i].updated_at = CURRENT_TIMESTAMP(1)

(***************************************************************************)
(* Properties of the audit table next to the provider tables               *)
(***************************************************************************)

\* C31: the audit table is append-only and independent of the provider
\* calls.  Every call leaves the rows logged so far in place and as they
\* were; add_provider, update_provider and delete_provider, whether they
\* succeed, fail or are rolled back, leave the audit table as it was; and
\* log_validation_failure leaves every provider-scoped and lookup table as
\* it was.
C31_AuditAppendOnly ==
    [][ /\ Len(db'.validation_failures) >= Len(db.validation_failures)
        /\ SubSeq(db'.validation_failures, 1, Len(db.validation_failures))
              = db.validation_failures
        /\ op'.name \in {"add_provider", "update_provider", "delete_provider"}
              => db'.validation_failures = db.validation_failures
        /\ op'.name = "log_validation_failure"
              => ProviderTables(db') = ProviderTables(db) ]_vars

\* An update_provider that failed and was rolled back, with a provider
\* stored and a failure logged under that provider's name before.
C31_Witness ==
    /\ op.name = "update_provider"
    /\ op.fault
    /\ ret.raised
    /\ db.validation_failures # <<>>
    /\ \E i \in DOMAIN db.providers :
          db.providers[i].provider_name = db.validation_failures[1].provider_name

(***************************************************************************)
(* Properties of storage and submission within one run                     *)
(***************************************************************************)

\* The core rows carrying the name of a provider of the list.
RowsOfNames(rows, providers) ==
    {i \in DOMAIN rows :
        \E j \in DOMAIN providers :
            providers[j].provider_name = rows[i].provider_name}

\* Storage and submission of a run with storage over the valid providers
\* valid: ids are the ids storage returned, sent the batches handed to the
\* API, d and e the database before and after.  Every valid provider is
\* sent, in order, whether or not storage has returned an id for it, and
\* every provider that lists no service twice has a core row afterwards,
\* whatever became of its batch; no core row that was there has gone.
Isolated(valid, ids, sent, d, e) ==
    /\ Concat(sent) = valid
    /\ Len(ids) <= Len(valid)
    /\ \A i \in DOMAIN valid :
          ~HasRepeat(valid[i].services) => RowsOfNames(e.providers, <<valid[i]>>) # {}
    /\ SubSeq(e.providers, 1, Len(d.providers)) = d.providers

\* C32: storage and submission are isolated from each other within one run
\* of process_providers.  A provider whose add_provider call fails in the
\* storage step is still in its submission batch, and a submission batch
\* that fails takes none of its providers out of storage.
C32_StorageAndSubmissionIsolated ==
    [][ (op'.name = "process_providers" /\ app.use_db) =>
          Isolated(ValidProviders(op'.providers_data),
                   ret'.value.db_results.provider_ids,
                   Added(app.submitted, app'.submitted), db, db') ]_vars

\* A run with storage of City Clinic and of the clinic that lists a service
\* twice, submitted as one batch that failed: storage returned one id, the
\* batch handed to the API held both providers, and City Clinic is stored.
C32_Witness ==
    /\ op.name = "process_providers"
    /\ app.use_db
    /\ op.run = 1
    /\ op.batch_size = 2
    /\ ret.value.valid_providers = 2
    /\ ret.value.db_results.providers_stored = 1
    /\ Len(ret.value.batches) = 1
    /\ ret.value.batches[1].status = "failed"
    /\ Len(app.submitted[1]) = 2
    /\ HasRepeat(app.submitted[1][2].services)
    /\ Len(db.providers) = 1
    /\ db.providers[1].provider_name = app.submitted[1][1].provider_name
    /\ app.processed_providers = <<>>

(***************************************************************************)
(* Properties of the names stored                                          *)
(***************************************************************************)

\* C33 as stated: no two rows of the core table have the same provider_name.
C33_Original ==
    \A i, j \in DOMAIN db.providers :
        i # j => db.providers[i].provider_name # db.providers[j].provider_name

\* C33, amended: add_provider, add_providers_batch and delete_provider never
\* give a name a further core row.  After such a call a name that no row
\* carried is carried by one row at most, and a name that rows carried is
\* carried by no more rows than before, so names that are unique stay unique
\* under these calls.  (update_provider writes the name it is given without
\* looking for it.)
C33_AddsKeepNamesUnique ==
    [][ op'.name \in {"add_provider", "add_providers_batch", "delete_provider"} =>
          \A n \in Names :
              Cardinality(RowsNamed(db', n))
                  <= IF RowsNamed(db, n) = {} THEN 1
                     ELSE Cardinality(RowsNamed(db, n)) ]_vars

\* An add_provider under a name that two rows carry since an update_provider
\* renamed one of them: it returned the id of the first and added no third.
C33_Witness ==
    /\ op.name = "add_provider"
    /\ ~ret.raised
    /\ Cardinality(RowsNamed(db, op.provider.provider_name)) = 2
    /\ Len(db.providers) = 2
    /\ ret.value = db.providers[1].id

\* C35 as stated: after delete_provider(id) of a provider named N has
\* returned true, an add_provider of a provider named N without an id does
\* not short-circuit.  It creates a core row and returns its id, an id no
\* stored provider had, under which get_provider returns the content
\* supplied.
C35_AddAfterDeleteCreates ==
    [][ ( /\ op.name = "delete_provider"
          /\ ret = Return(TRUE)
          /\ op'.name = "add_provider"
          /\ ~op'.fault
          /\ op'.provider.provider_id = None
          /\ op'.provider.provider_name \in op.found )
        => /\ ~ret'.raised
           /\ ret'.value \notin ProviderIds(db)
           /\ Len(db'.providers) = Len(db.providers) + 1
           /\ LET g == get_provider(db', ret'.value)
              IN  /\ ~g.raised
                  /\ g.value # NullProvider
                  /\ SameContent(g.value, op'.provider) ]_vars

(***************************************************************************)
(* Properties of add_provider under an id the caller supplies              *)
(***************************************************************************)

\* A stored provider has the id, and it has another name.
IdTaken(d, provider) ==
    /\ provider.provider_id \in ProviderIds(d)
    /\ \A i \in DOMAIN d.providers :
          d.providers[i].id = provider.provider_id
              => d.providers[i].provider_name # provider.provider_name

\* C36 as stated: add_provider with a supplied id that a stored provider of
\* another name has raises and leaves the stored state as it was, and an
\* add_provider with a supplied id that returns returns that id.
C36_Original ==
    [][ (op'.name = "add_provider" /\ op'.provider.provider_id # None) =>
          /\ IdTaken(db, op'.provider) => ret'.raised /\ db' = db
          /\ ~ret'.raised => ret'.value = op'.provider.provider_id ]_vars

\* C36, amended: add_provider with a supplied id that a stored provider of
\* another name has leaves the stored state as it was.  It raises if no
\* stored provider has the incoming name; if one has, the call returns the
\* id of that provider, which is not the id supplied.  An add_provider that
\* creates a core row for a provider with a supplied id creates it under
\* that id and returns it.
C36_SuppliedIdTaken ==
    [][ (op'.name = "add_provider" /\ op'.provider.provider_id # None) =>
          /\ IdTaken(db, op'.provider) =>
                /\ db' = db
                /\ ret'.raised <=> RowsNamed(db, op'.provider.provider_name) = {}
                /\ ~ret'.raised =>
                      /\ ret'.value # op'.provider.provider_id
                      /\ \E i \in RowsNamed(db, op'.provider.provider_name) :
                            db.providers[i].id = ret'.value
          /\ (~ret'.raised /\ Len(db'.providers) # Len(db.providers)) =>
                /\ ret'.value = op'.provider.provider_id
                /\ Len(db'.providers) = Len(db.providers) + 1
                /\ db'.providers[Len(db'.providers)].id = ret'.value ]_vars

\* An add_provider of a provider that repeats no service, under the id of a
\* stored provider of another name and under a name no row carries, with no
\* failure from outside: it raised, and the stored provider is still there
\* under its name.
C36_Witness ==
    /\ op.name = "add_provider"
    /\ ~op.fault
    /\ ret.raised
    /\ ~HasRepeat(op.provider.services)
    /\ op.provider.provider_id \in ProviderIds(db)
    /\ RowsNamed(db, op.provider.provider_name) = {}
    /\ Len(db.providers) = 1
    /\ Whole(db, op.provider.provider_id)

(***************************************************************************)
(* Properties of the storage report and of processed_providers             *)
(***************************************************************************)

\* C37 as stated: after a run with storage and at least one valid provider,
\* db_results.providers_stored is the number of core rows the run created,
\* and db_results.provider_ids holds no id twice.
C37_StoredCountsRowsCreated ==
    [][ ( /\ op'.name = "process_providers"
          /\ app.use_db
          /\ ret'.value.valid_providers >= 1 )
        => /\ ~ret'.value.db_results.is_none
           /\ ret'.value.db_results.providers_stored
                 = Len(db'.providers) - Len(db.providers)
           /\ ~HasRepeat(ret'.value.db_results.provider_ids) ]_vars

\* The smaller of two numbers.
Min(a, b) == IF a < b THEN a ELSE b

\* C38 as stated: get_validation_failures(n) with a limit n >= 0 returns
\* min(n, number of audit rows) records, and all audit rows without a limit.
C38_LimitCounts ==
    op.name = "get_validation_failures" =>
        Len(ret.value) = IF op.limit.is_none THEN Len(db.validation_failures)
                         ELSE Min(op.limit.value, Len(db.validation_failures))

\* The batches of calls whose outcome entry says submitted, joined in order.
RECURSIVE SubmittedOf(_, _)
SubmittedOf(calls, batches) ==
    IF calls = <<>> THEN <<>>
    ELSE (IF Head(batches).status = "submitted" THEN Head(calls) ELSE <<>>)
         \o SubmittedOf(Tail(calls), Tail(batches))

\* C39: processed_providers grows only by the providers of the batches that
\* were submitted.  A call keeps what the list held and appends the batches
\* whose outcome is 'submitted', in order, and nothing else: the providers
\* of a 'failed' batch are not appended, and every provider appended comes
\* from a record of the call that passed validation.
C39_ProcessedAreSubmitted ==
    [][ op'.name = "process_providers" =>
          /\ SubSeq(app'.processed_providers, 1, Len(app.processed_providers))
                = app.processed_providers
          /\ Added(app.processed_providers, app'.processed_providers)
                = SubmittedOf(Added(app.submitted, app'.submitted),
                              ret'.value.batches)
          /\ SetOf(Added(app.processed_providers, app'.processed_providers))
                \subseteq SetOf(ValidProviders(op'.providers_data)) ]_vars

\* Two runs on one object: the first submitted one batch and failed with the
\* next, the second submitted one batch.  The list holds the providers of
\* the two submitted batches in order, and the provider of the failed batch
\* is not in it.
C39_Witness ==
    /\ op.name = "process_providers"
    /\ op.run = 2
    /\ Len(op.providers_data) = 1
    /\ Len(app.submitted) = 3
    /\ app.processed_providers = app.submitted[1] \o app.submitted[3]
    /\ Len(app.processed_providers) = 2
    /\ \A i \in DOMAIN app.submitted[2] :
          app.submitted[2][i] \notin SetOf(app.processed_providers)

====
